---- MODULE Spec2Model ----
(***************************************************************************)
(* A model of the STL analysis scripts: the binary and text mesh parsers,  *)
(* the format detection, the point-cloud extraction, the detection entry   *)
(* points, the helix detector, the clustering loops and the void sweeps;   *)
(* and of the serial command runner.                                       *)
(*                                                                         *)
(* Bytes are integers 0..255, a file is a sequence of bytes.  A float32 is *)
(* kept as the three IEEE-754 fields (sign, exponent, mantissa) that       *)
(* struct.unpack decodes from its 4 little-endian bytes.                   *)
(***************************************************************************)
EXTENDS Integers, Sequences, FiniteSets, TLC

VARIABLES
    data,           \* the bytes of the file being parsed
    variant,        \* which script's parse_binary_stl runs
    pc,             \* position of the parser / of main
    pos,            \* the file object's read position
    num_triangles,  \* the count unpacked from bytes 80..83
    idx,            \* iterations of "for _ in range(num_triangles)" done
    facets,         \* the list of facets built so far
    vertices,       \* the flat vertex list (the point cloud)
    exc,            \* the exception raised, "none" when none
    sample,         \* is_ascii_stl: the leading bytes read from the file
    is_ascii,       \* is_ascii_stl: its return value
    parser,         \* parse_stl: the parser it calls
    mesh,           \* the blocks the text file was written from
    content,        \* parse_ascii_stl: the text read from the file
    scan,           \* parse_ascii_stl: where finditer resumes its search
    entry,          \* the detection entry point that was called
    result,         \* what the entry point returned
    axis,           \* detect_helical: the axis (cx, cy) of the search
    radius_range,   \* detect_helical: the radius band of the search
    range_idx,      \* detect_helical: how many bands main has tested
    detected_helices, \* detect_helical: the helical results main has kept
    samples,        \* clustering: the holes found, in the order they are given
    merged_into,    \* clustering: for each sample taken so far, the index
                    \* of the candidate it went into
    input_holes,    \* clustering: the dicts of the list the loop runs on, in
                    \* list order, as they stand in memory
    origin,         \* clustering: for each kept candidate, the index of the
                    \* input dict it is, 0 when it is a dict of its own
    test_radius,    \* void sweep: the radius of the sphere that is swept
    face_verts,     \* void sweep by workers: the (u, v) of the face vertices
    cells_left,     \* void sweep by workers: the grid cells not yet taken
    workers,        \* void sweep by workers: each worker's cell and counters
    holes_found,    \* void sweep by workers: the hits appended so far
    scan_at,        \* depth scan: the (x, z) the scan is made at
    radii_left,     \* depth scan: the test radii still to be scanned with
    scan_y,         \* depth scan: the slice the loop is at
    in_void,        \* depth scan: whether the slice before was a void
    void_start,     \* depth scan: the slice at which the open void began
    void_regions,   \* depth scan: the (start, end, depth) recorded so far
    script,         \* command runner: the lines of the program file
    line_num,       \* command runner: the lines of the file taken so far
    written,        \* command runner: what was written to the port
    responses       \* command runner: the responses read from the port, each
                    \* with the number of commands written before it

binVars == <<data, variant, pc, pos, num_triangles, idx, facets, vertices, exc>>
fmtVars == <<sample, is_ascii, parser>>

txtVars == <<mesh, content, scan>>

detVars == <<entry, result>>

helVars == <<axis, radius_range, range_idx, detected_helices>>

cluVars == <<samples, merged_into, input_holes, origin>>

scanVars == <<scan_at, radii_left, scan_y, in_void, void_start, void_regions>>

sweepVars == <<test_radius, face_verts, cells_left, workers, holes_found, scanVars>>

runVars == <<script, line_num, written, responses>>

vars == <<binVars, fmtVars, txtVars, detVars, helVars, cluVars, sweepVars, runVars>>

\* the variables of the other programs, which a program leaves alone
notBin == <<fmtVars, txtVars, detVars, helVars, cluVars, sweepVars, runVars>>
notFmt == <<variant, pos, num_triangles, idx, facets, vertices, exc, txtVars, detVars, helVars,
            cluVars, sweepVars, runVars>>
notTxt == <<data, variant, pos, num_triangles, idx, vertices, fmtVars, detVars, helVars, cluVars,
            sweepVars, runVars>>
notDet == <<data, variant, pos, num_triangles, idx, fmtVars, txtVars, helVars, cluVars,
            sweepVars, runVars>>
notHel == <<data, variant, pos, num_triangles, idx, facets, vertices, fmtVars, txtVars, cluVars,
            sweepVars, runVars>>
notClu == <<data, variant, pos, num_triangles, facets, vertices, exc, fmtVars, txtVars, helVars,
            sweepVars, runVars>>
notSweep == <<data, variant, pos, num_triangles, idx, facets, vertices, fmtVars, txtVars, helVars,
              cluVars, runVars>>
notRun == <<data, variant, pos, num_triangles, idx, facets, vertices, fmtVars, txtVars, detVars,
            helVars, cluVars, sweepVars>>

\* the other programs are not running
ScanIdle ==
    /\ scan_at = <<>> /\ radii_left = <<>> /\ scan_y = 0 /\ in_void = FALSE /\ void_start = <<>>
    /\ void_regions = <<>>
FmtIdle == sample = <<>> /\ is_ascii = FALSE /\ parser = "none"
DetIdle ==
    /\ entry = "none" /\ result = <<>>
    /\ axis = <<>> /\ radius_range = <<>> /\ range_idx = 0 /\ detected_helices = <<>>
    /\ samples = <<>> /\ merged_into = <<>> /\ input_holes = <<>> /\ origin = <<>>
    /\ test_radius = 0
    /\ face_verts = <<>> /\ cells_left = <<>> /\ workers = <<>> /\ holes_found = <<>>
    /\ ScanIdle
    /\ script = <<>> /\ line_num = 0 /\ written = <<>> /\ responses = <<>>
TxtIdle == mesh = <<>> /\ content = <<>> /\ scan = 0
BinIdle ==
    /\ variant = "none" /\ pos = 0 /\ num_triangles = 0 /\ idx = 0
    /\ facets = <<>> /\ vertices = <<>> /\ exc = "none"

Min(a, b) == IF a < b THEN a ELSE b
Max(a, b) == IF a > b THEN a ELSE b
SetMin(S) == CHOOSE x \in S : \A y \in S : x <= y
SetMax(S) == CHOOSE x \in S : \A y \in S : x >= y

(***************************************************************************)
(* Layout of the binary format as the code reads it.                       *)
(***************************************************************************)
HeaderSize == 80
CountSize == 4
TripleSize == 12
AttrSize == 2
PreambleSize == 84
RecordSize == 50

(***************************************************************************)
(* Bounds of the model.                                                    *)
(***************************************************************************)
MaxTriangles == 2
MaxTrailing == 2
NumPatterns == 2

\* f.read(n) at read position p: the bytes present, at most n of them
ReadAt(p, n) == SubSeq(data, p + 1, Min(p + n, Len(data)))

\* the read position after f.read(n) at position p
Advance(p, n) == Min(p + n, Len(data))

\* struct.unpack('<I', b): a 4-byte little-endian unsigned integer
UnpackU32(b) == b[1] + 256 * b[2] + 65536 * b[3] + 16777216 * b[4]

\* one little-endian float32: sign bit, 8 exponent bits, 23 mantissa bits
UnpackF32(b) ==
    [sign |-> b[4] \div 128,
     exponent |-> (b[4] % 128) * 2 + (b[3] \div 128),
     mantissa |-> (b[3] % 128) * 65536 + b[2] * 256 + b[1]]

\* struct.unpack('<fff', b): three consecutive little-endian floats
UnpackFFF(b) ==
    <<UnpackF32(SubSeq(b, 1, 4)), UnpackF32(SubSeq(b, 5, 8)), UnpackF32(SubSeq(b, 9, 12))>>

(***************************************************************************)
(* The files the parser is run on: an 80-byte header, the declared count   *)
(* in 4 little-endian bytes, then 50-byte records, cut at any length.      *)
(***************************************************************************)
Fills == {0, 255}
Variants == {"analyze_stl", "sphere_sweep_detection"}
DeclaredCounts == (0 .. MaxTriangles + 1) \cup {256}
MaxLen == PreambleSize + RecordSize * MaxTriangles + MaxTrailing

\* byte k of record q under pattern p; pattern 1 makes all vertices differ,
\* the others give every record the same first vertex
BodyByte(p, q, k) ==
    IF k >= RecordSize - AttrSize THEN 0
    ELSE IF p = 1 THEN (17 + 37 * (RecordSize * q + k)) % 256
    ELSE IF k \div TripleSize = 1 THEN (p + k) % 256
    ELSE (p + RecordSize * q + k) % 256

FileByte(n, fill, p, off) ==
    IF off < HeaderSize THEN fill
    ELSE IF off < PreambleSize
         THEN CASE off - HeaderSize = 0 -> n % 256
                [] off - HeaderSize = 1 -> (n \div 256) % 256
                [] off - HeaderSize = 2 -> (n \div 65536) % 256
                [] OTHER -> (n \div 16777216) % 256
    ELSE LET k == (off - PreambleSize) % RecordSize
             q == (off - PreambleSize) \div RecordSize
         IN  IF k >= RecordSize - AttrSize THEN fill ELSE BodyByte(p, q, k)

FileBytes(n, fill, p, len) == [j \in 1 .. len |-> FileByte(n, fill, p, j - 1)]

(***************************************************************************)
(* parse_binary_stl                                                        *)
(***************************************************************************)
\* TriangleAt without the read of the 2 attribute bytes
TriangleAtNoAttr(p) ==
    LET nb == ReadAt(p, TripleSize)
        p1 == Advance(p, TripleSize)
        b1 == ReadAt(p1, TripleSize)
        p2 == Advance(p1, TripleSize)
        b2 == ReadAt(p2, TripleSize)
        p3 == Advance(p2, TripleSize)
        b3 == ReadAt(p3, TripleSize)
        p4 == Advance(p3, TripleSize)
    IN  IF Len(nb) # TripleSize \/ Len(b1) # TripleSize
           \/ Len(b2) # TripleSize \/ Len(b3) # TripleSize
        THEN [ok |-> FALSE, next |-> p4]
        ELSE [ok |-> TRUE, next |-> p4,
              normal |-> UnpackFFF(nb),
              v1 |-> UnpackFFF(b1), v2 |-> UnpackFFF(b2), v3 |-> UnpackFFF(b3)]

\* one pass of the loop body at read position p: the four 12-byte reads
\* with their unpack, and the 2-byte read whose result is dropped
TriangleAt(p) ==
    LET nb == ReadAt(p, TripleSize)
        p1 == Advance(p, TripleSize)
        b1 == ReadAt(p1, TripleSize)
        p2 == Advance(p1, TripleSize)
        b2 == ReadAt(p2, TripleSize)
        p3 == Advance(p2, TripleSize)
        b3 == ReadAt(p3, TripleSize)
        p4 == Advance(p3, TripleSize)
        p5 == Advance(p4, AttrSize)
    IN  IF Len(nb) # TripleSize \/ Len(b1) # TripleSize
           \/ Len(b2) # TripleSize \/ Len(b3) # TripleSize
        THEN [ok |-> FALSE, next |-> p5]
        ELSE [ok |-> TRUE, next |-> p5,
              normal |-> UnpackFFF(nb),
              v1 |-> UnpackFFF(b1), v2 |-> UnpackFFF(b2), v3 |-> UnpackFFF(b3)]

\* header = f.read(80)
ReadHeader ==
    /\ pc = "header"
    /\ pos' = Advance(pos, HeaderSize)
    /\ pc' = "count"
    /\ UNCHANGED <<data, variant, num_triangles, idx, facets, vertices, exc>>
    /\ UNCHANGED notBin

\* num_triangles = struct.unpack('<I', f.read(4))[0]
ReadCount ==
    /\ pc = "count"
    /\ LET b == ReadAt(pos, CountSize)
       IN  IF Len(b) # CountSize
           THEN /\ exc' = "struct.error"
                /\ pc' = "raised"
                /\ UNCHANGED num_triangles
           ELSE /\ num_triangles' = UnpackU32(b)
                /\ pc' = "loop"
                /\ UNCHANGED exc
    /\ pos' = Advance(pos, CountSize)
    /\ UNCHANGED <<data, variant, idx, facets, vertices>>
    /\ UNCHANGED notBin

\* the loop body of analyze_stl.py (and of the scripts that copy it)
ReadTriangle ==
    /\ pc = "loop"
    /\ variant = "analyze_stl"
    /\ idx < num_triangles
    /\ LET t == TriangleAt(pos)
       IN  /\ pos' = t.next
           /\ IF t.ok
              THEN /\ facets' = Append(facets,
                          [normal |-> t.normal, vertices |-> <<t.v1, t.v2, t.v3>>])
                   /\ idx' = idx + 1
                   /\ UNCHANGED <<pc, exc>>
              ELSE /\ exc' = "struct.error"
                   /\ pc' = "raised"
                   /\ UNCHANGED <<facets, idx>>
    /\ UNCHANGED <<data, variant, num_triangles, vertices>>
    /\ UNCHANGED notBin

\* the loop body of sphere_sweep_detection.py: facets.extend([v1, v2, v3])
ReadTriangleFlat ==
    /\ pc = "loop"
    /\ variant = "sphere_sweep_detection"
    /\ idx < num_triangles
    /\ LET t == TriangleAt(pos)
       IN  /\ pos' = t.next
           /\ IF t.ok
              THEN /\ vertices' = vertices \o <<t.v1, t.v2, t.v3>>
                   /\ idx' = idx + 1
                   /\ UNCHANGED <<pc, exc>>
              ELSE /\ exc' = "struct.error"
                   /\ pc' = "raised"
                   /\ UNCHANGED <<vertices, idx>>
    /\ UNCHANGED <<data, variant, num_triangles, facets>>
    /\ UNCHANGED notBin

\* range(num_triangles) is exhausted: return facets
ReturnFacets ==
    /\ pc = "loop"
    /\ idx >= num_triangles
    /\ pc' = "return"
    /\ UNCHANGED <<data, variant, pos, num_triangles, idx, facets, vertices, exc>>
    /\ UNCHANGED notBin

(***************************************************************************)
(* The point cloud: for facet in facets: vertices.extend(facet['vertices'])*)
(***************************************************************************)
\* Flatten that keeps only the first occurrence of each vertex
RECURSIVE FlattenUnique(_)
FlattenUnique(fs) ==
    IF fs = <<>> THEN <<>>
    ELSE LET rest == FlattenUnique(SubSeq(fs, 1, Len(fs) - 1))
             seen == {rest[k] : k \in 1 .. Len(rest)}
         IN  rest \o SelectSeq(fs[Len(fs)].vertices, LAMBDA v : v \notin seen)

RECURSIVE Flatten(_)
Flatten(fs) ==
    IF fs = <<>> THEN <<>> ELSE fs[1].vertices \o Flatten(Tail(fs))

\* main of analyze_stl.py collects all_verts from the parsed facets
CollectVertices ==
    /\ pc = "return"
    /\ variant = "analyze_stl"
    /\ vertices' = Flatten(facets)
    /\ pc' = "cloud"
    /\ UNCHANGED <<data, variant, pos, num_triangles, idx, facets, exc>>
    /\ UNCHANGED notBin

Init ==
    /\ \E n \in DeclaredCounts, fill \in Fills, p \in 1 .. NumPatterns, len \in 0 .. MaxLen :
           data = FileBytes(n, fill, p, len)
    /\ variant \in Variants
    /\ pc = "header"
    /\ pos = 0
    /\ num_triangles = 0
    /\ idx = 0
    /\ facets = <<>>
    /\ vertices = <<>>
    /\ exc = "none"
    /\ FmtIdle
    /\ TxtIdle
    /\ DetIdle

Next ==
    \/ ReadHeader
    \/ ReadCount
    \/ ReadTriangle
    \/ ReadTriangleFlat
    \/ ReturnFacets
    \/ CollectVertices

Spec == Init /\ [][Next]_vars

(***************************************************************************)
(* Claims about the binary parser and the point cloud (checked under Spec) *)
(***************************************************************************)
\* the triangle count declared in bytes 80..83 of the file
DeclaredCount == UnpackU32(SubSeq(data, HeaderSize + 1, PreambleSize))

\* the file is shorter than its preamble, or than the records it declares
Truncated ==
    \/ Len(data) < PreambleSize
    \/ Len(data) < PreambleSize + RecordSize * DeclaredCount

\* the facet held by the 48 bytes at offset off of the file
FacetAtOffset(off) ==
    [normal |-> UnpackFFF(SubSeq(data, off + 1, off + 12)),
     vertices |-> <<UnpackFFF(SubSeq(data, off + 13, off + 24)),
                    UnpackFFF(SubSeq(data, off + 25, off + 36)),
                    UnpackFFF(SubSeq(data, off + 37, off + 48))>>]

Returned == pc \in {"return", "cloud"}

\* C1: a stream shorter than 84 + 50*N bytes (N the declared count), or
\* shorter than the 84-byte preamble, never makes parse_binary_stl return
\* a facet list: the parse ends with an error.
C1_TruncatedNeverReturns == Truncated => ~Returned

\* C2: on a stream of at least 84 + 50*N bytes the parser never raises, the
\* read position before record i is 84 + 50*i, and it returns exactly N
\* facets, facet i being the 48 bytes at offset 84 + 50*i (normal, v1, v2,
\* v3); header, attribute and trailing bytes are not part of the result.
C2_CompleteStreamParsed ==
    ~Truncated =>
        /\ pc # "raised"
        /\ exc = "none"
        /\ pc = "loop" => (pos = PreambleSize + RecordSize * idx /\ idx <= DeclaredCount)
        /\ Returned =>
              /\ idx = DeclaredCount
              /\ pos = PreambleSize + RecordSize * DeclaredCount
              /\ variant = "analyze_stl" =>
                    facets = [i \in 1 .. DeclaredCount |->
                                 FacetAtOffset(PreambleSize + RecordSize * (i - 1))]

\* C2 witness: two facets returned from a file with a non-zero header,
\* non-zero attribute bytes and bytes after the last record
C2_Witness ==
    /\ pc = "return"
    /\ variant = "analyze_stl"
    /\ Len(facets) = 2
    /\ Len(data) > PreambleSize + RecordSize * 2
    /\ data[1] = 255
    /\ data[PreambleSize + RecordSize] = 255

SampleSize == 1000

\* 'facet normal' and 'vertex' as ASCII codes
FacetNormal == <<102, 97, 99, 101, 116, 32, 110, 111, 114, 109, 97, 108>>
Vertex == <<118, 101, 114, 116, 101, 120>>

\* sample.decode('ascii'): fails on any byte above 127, else one character
\* per byte with the byte's code
DecodeAscii(b) ==
    IF \E k \in 1 .. Len(b) : b[k] > 127
    THEN [ok |-> FALSE, text |-> <<>>]
    ELSE [ok |-> TRUE, text |-> b]

\* kw in text
Contains(text, kw) ==
    \E k \in 1 .. Len(text) - Len(kw) + 1 : SubSeq(text, k, k + Len(kw) - 1) = kw

\* the whole file instead of its first 1000 bytes
WholeFile == data

\* f.read(1000) on the freshly opened file
LeadingSample == ReadAt(0, SampleSize)

\* the value is_ascii_stl returns for a sample
IsAsciiSample(s) ==
    LET d == DecodeAscii(s)
    IN  d.ok /\ Contains(d.text, FacetNormal) /\ Contains(d.text, Vertex)

\* is_ascii_stl(filename)
IsAsciiStl ==
    /\ pc = "is_ascii_stl"
    /\ sample' = LeadingSample
    /\ is_ascii' = IsAsciiSample(LeadingSample)
    /\ pc' = "parse_stl"
    /\ UNCHANGED <<data, parser>>
    /\ UNCHANGED notFmt

\* parse_stl(filename): the branch on is_ascii_stl's result
ParseStl ==
    /\ pc = "parse_stl"
    /\ parser' = IF is_ascii THEN "parse_ascii_stl" ELSE "parse_binary_stl"
    /\ pc' = "parsing"
    /\ UNCHANGED <<data, sample, is_ascii>>
    /\ UNCHANGED notFmt

(***************************************************************************)
(* The files format detection is run on: blanks, with the two keywords at  *)
(* chosen offsets (or absent, offset -1) and one byte above 127 at a       *)
(* chosen offset (or absent); offsets reach past the sample by MaxPast.    *)
(***************************************************************************)
MaxPast == 20

FacetNormalOffsets ==
    {-1, 0, SampleSize - 13, SampleSize - 12, SampleSize - 11, SampleSize, SampleSize + MaxPast - 12}
VertexOffsets ==
    {-1, 20, SampleSize - 7, SampleSize - 6, SampleSize - 5, SampleSize, SampleSize + MaxPast - 6}
HighByteOffsets == {-1, 40, SampleSize - 1, SampleSize, SampleSize + MaxPast - 1}
FormatLengths == {0, 30, SampleSize - 1, SampleSize, SampleSize + MaxPast}

FormatByte(o1, o2, h, off) ==
    IF off = h THEN 200
    ELSE IF o1 >= 0 /\ off >= o1 /\ off < o1 + Len(FacetNormal) THEN FacetNormal[off - o1 + 1]
    ELSE IF o2 >= 0 /\ off >= o2 /\ off < o2 + Len(Vertex) THEN Vertex[off - o2 + 1]
    ELSE 32

FormatFile(o1, o2, h, len) == [j \in 1 .. len |-> FormatByte(o1, o2, h, j - 1)]

InitFormat ==
    /\ \E o1 \in FacetNormalOffsets, o2 \in VertexOffsets, h \in HighByteOffsets,
          len \in FormatLengths :
           data = FormatFile(o1, o2, h, len)
    /\ pc = "is_ascii_stl"
    /\ FmtIdle
    /\ BinIdle
    /\ TxtIdle
    /\ DetIdle

NextFormat == IsAsciiStl \/ ParseStl

SpecFormat == InitFormat /\ [][NextFormat]_vars

(***************************************************************************)
(* Claims about format detection (checked under SpecFormat)                *)
(***************************************************************************)
\* keyword kw lies wholly inside the first SampleSize bytes of the file
KeywordInLeadingBytes(kw) ==
    \E o \in 0 .. SampleSize - Len(kw) :
        /\ o + Len(kw) <= Len(data)
        /\ \A k \in 1 .. Len(kw) : data[o + k] = kw[k]

\* none of the first SampleSize bytes of the file is above 127
LeadingBytesAreText ==
    \A j \in 1 .. Min(SampleSize, Len(data)) : data[j] < 128

\* C3: parse_stl calls the text parser exactly when the first 1000 bytes of
\* the file decode as text and contain both 'facet normal' and 'vertex';
\* otherwise it calls the binary parser.  Bytes past the first 1000 have no
\* part in the choice.
C3_TextParserIffLeadingSample ==
    pc = "parsing" =>
        /\ parser \in {"parse_ascii_stl", "parse_binary_stl"}
        /\ parser = "parse_ascii_stl" <=>
              /\ LeadingBytesAreText
              /\ KeywordInLeadingBytes(FacetNormal)
              /\ KeywordInLeadingBytes(Vertex)

\* C3 witness: the text parser is chosen for a file that holds a byte above
\* 127 after its first 1000 bytes
C3_Witness ==
    /\ pc = "parsing"
    /\ parser = "parse_ascii_stl"
    /\ Len(data) > SampleSize
    /\ \E j \in SampleSize + 1 .. Len(data) : data[j] > 127

\* the binary parser is chosen although both keywords are in the file,
\* because one of them lies across the end of the sample
C3_WitnessBinary ==
    /\ pc = "parsing"
    /\ parser = "parse_binary_stl"
    /\ Contains(data, FacetNormal) /\ Contains(data, Vertex)
    /\ \A j \in 1 .. Len(data) : data[j] < 128

(***************************************************************************)
(* parse_ascii_stl.  The text is a sequence of characters.  The pattern    *)
(*   facet normal\s+(N)\s+(N)\s+(N).*?outer loop\s+vertex\s+(N)\s+(N)\s+(N) *)
(*   \s+vertex\s+(N)\s+(N)\s+(N)\s+vertex\s+(N)\s+(N)\s+(N)                 *)
(* with N = [-\d.e+]+ is matched as re.finditer matches it with DOTALL:    *)
(* every \s+ and every N takes the longest run (the character after it     *)
(* must be of another class, so no shorter run can match), and .*? takes   *)
(* the shortest stretch after which the rest of the pattern matches.       *)
(***************************************************************************)
Whitespace == {" ", "\n", "\t", "\r"}
Digits == {"0", "1", "2", "3", "4", "5", "6", "7", "8", "9"}
NumberChars == Digits \cup {"-", ".", "e", "+"}

FacetNormalText == <<"f", "a", "c", "e", "t", " ", "n", "o", "r", "m", "a", "l">>
OuterLoopText == <<"o", "u", "t", "e", "r", " ", "l", "o", "o", "p">>
VertexText == <<"v", "e", "r", "t", "e", "x">>

\* the index after the longest run of characters of class c that starts at i
RECURSIVE RunEnd(_, _, _)
RunEnd(s, i, c) ==
    IF i <= Len(s) /\ s[i] \in c THEN RunEnd(s, i + 1, c) ELSE i

\* a matcher state: whether the match is alive, the index of the next
\* character, the groups captured so far
NoMatch == [ok |-> FALSE, i |-> 0, g |-> <<>>]

\* a literal
MatchLit(s, st, lit) ==
    IF st.ok /\ st.i + Len(lit) - 1 <= Len(s) /\ SubSeq(s, st.i, st.i + Len(lit) - 1) = lit
    THEN [st EXCEPT !.i = st.i + Len(lit)]
    ELSE NoMatch

\* \s+
MatchSpace(s, st) ==
    IF ~st.ok THEN NoMatch
    ELSE LET j == RunEnd(s, st.i, Whitespace)
         IN  IF j > st.i THEN [st EXCEPT !.i = j] ELSE NoMatch

\* ([-\d.e+]+)
MatchNumber(s, st) ==
    IF ~st.ok THEN NoMatch
    ELSE LET j == RunEnd(s, st.i, NumberChars)
         IN  IF j > st.i
             THEN [ok |-> TRUE, i |-> j, g |-> Append(st.g, SubSeq(s, st.i, j - 1))]
             ELSE NoMatch

\* \s+(N)\s+(N)\s+(N)
MatchTriple(s, st) ==
    MatchNumber(s, MatchSpace(s, MatchNumber(s, MatchSpace(s, MatchNumber(s, MatchSpace(s, st))))))

\* \s+vertex\s+(N)\s+(N)\s+(N)
MatchVertex(s, st) == MatchTriple(s, MatchLit(s, MatchSpace(s, st), VertexText))

\* outer loop, then the three vertex lines
MatchLoop(s, st) ==
    MatchVertex(s, MatchVertex(s, MatchVertex(s, MatchLit(s, st, OuterLoopText))))

\* .*? followed by the rest of the pattern: the first index from p on at
\* which the rest matches
MatchLazy(s, st, p) ==
    LET ends == {q \in p .. Len(s) + 1 : MatchLoop(s, [st EXCEPT !.i = q]).ok}
    IN  IF ends = {} THEN NoMatch
        ELSE MatchLoop(s, [st EXCEPT !.i = SetMin(ends)])

\* the whole pattern, anchored at index i
MatchAt(s, i) ==
    LET head == MatchTriple(s, MatchLit(s, [ok |-> TRUE, i |-> i, g |-> <<>>], FacetNormalText))
    IN  IF head.ok THEN MatchLazy(s, head, head.i) ELSE NoMatch

\* the next match of finditer: the leftmost start from index i on
NextMatch(s, i) ==
    LET starts == {k \in i .. Len(s) : MatchAt(s, k).ok}
    IN  IF starts = {} THEN NoMatch ELSE MatchAt(s, SetMin(starts))

(***************************************************************************)
(* float(text) for text made of the characters of N.  A number is kept as  *)
(* [m, e], standing for m * 10^e with m not divisible by 10 (0 is [0, 0]), *)
(* so that equal numbers are equal records.                                *)
(***************************************************************************)
DigitValue(c) ==
    CASE c = "0" -> 0 [] c = "1" -> 1 [] c = "2" -> 2 [] c = "3" -> 3 [] c = "4" -> 4
      [] c = "5" -> 5 [] c = "6" -> 6 [] c = "7" -> 7 [] c = "8" -> 8 [] c = "9" -> 9

RECURSIVE DigitsValue(_)
DigitsValue(ds) ==
    IF ds = <<>> THEN 0
    ELSE 10 * DigitsValue(SubSeq(ds, 1, Len(ds) - 1)) + DigitValue(ds[Len(ds)])

RECURSIVE Normalize(_, _)
Normalize(m, e) ==
    IF m = 0 THEN [m |-> 0, e |-> 0]
    ELSE IF m % 10 = 0 THEN Normalize(m \div 10, e + 1)
    ELSE [m |-> m, e |-> e]

NotANumber == [valid |-> FALSE, value |-> [m |-> 0, e |-> 0]]

ParseFloat(t) ==
    LET signed == t # <<>> /\ t[1] \in {"+", "-"}
        i0 == IF signed THEN 2 ELSE 1
        iEnd == RunEnd(t, i0, Digits)
        dotted == iEnd <= Len(t) /\ t[iEnd] = "."
        fEnd == IF dotted THEN RunEnd(t, iEnd + 1, Digits) ELSE iEnd
        intDigits == SubSeq(t, i0, iEnd - 1)
        fracDigits == IF dotted THEN SubSeq(t, iEnd + 1, fEnd - 1) ELSE <<>>
        hasExp == fEnd <= Len(t)
        expSigned == fEnd + 1 <= Len(t) /\ t[fEnd + 1] \in {"+", "-"}
        x0 == IF expSigned THEN fEnd + 2 ELSE fEnd + 1
        xEnd == RunEnd(t, x0, Digits)
        expValue == DigitsValue(SubSeq(t, x0, xEnd - 1))
        mant == DigitsValue(intDigits \o fracDigits)
    IN  IF Len(intDigits) + Len(fracDigits) = 0 THEN NotANumber
        ELSE IF hasExp /\ (t[fEnd] \notin {"e", "E"} \/ xEnd = x0 \/ xEnd # Len(t) + 1) THEN NotANumber
        ELSE [valid |-> TRUE,
              value |-> Normalize(
                  IF signed /\ t[1] = "-" THEN 0 - mant ELSE mant,
                  (IF ~hasExp THEN 0
                   ELSE IF expSigned /\ t[fEnd + 1] = "-" THEN 0 - expValue ELSE expValue)
                  - Len(fracDigits))]

\* [float(match.group(i)) for i in range(a, a + 3)]
FloatTriple(g, a) ==
    <<ParseFloat(g[a]).value, ParseFloat(g[a + 1]).value, ParseFloat(g[a + 2]).value>>

\* content = f.read()
ReadContent ==
    /\ pc = "read"
    /\ scan' = 1
    /\ pc' = "finditer"
    /\ UNCHANGED <<mesh, content, facets, exc>>
    /\ UNCHANGED notTxt

\* one pass of "for match in matches": the next match, its twelve floats,
\* the facet appended; the loop ends when finditer finds no further match
NextFacet ==
    /\ pc = "finditer"
    /\ LET m == NextMatch(content, scan)
       IN  IF ~m.ok
           THEN /\ pc' = "return"
                /\ UNCHANGED <<scan, facets, exc>>
           ELSE IF \E k \in 1 .. 12 : ~ParseFloat(m.g[k]).valid
           THEN /\ pc' = "raised"
                /\ exc' = "ValueError"
                /\ scan' = m.i
                /\ UNCHANGED facets
           ELSE /\ facets' = Append(facets,
                       [normal |-> FloatTriple(m.g, 1),
                        vertices |-> <<FloatTriple(m.g, 4), FloatTriple(m.g, 7),
                                       FloatTriple(m.g, 10)>>])
                /\ scan' = m.i
                /\ UNCHANGED <<pc, exc>>
    /\ UNCHANGED <<mesh, content>>
    /\ UNCHANGED notTxt

(***************************************************************************)
(* The text files parse_ascii_stl is run on: "solid part", then one block  *)
(* per entry of mesh, then "endsolid part".  Slot j (1..12) of block i     *)
(* holds the number 12*(i-1) + j, negated in every fourth slot, written    *)
(* in the block's notation.  A block's shape says which fields it has.     *)
(***************************************************************************)
MaxBlocks == 2

Shapes == {"good", "short_normal", "short_vertex", "two_vertices", "dash"}
Notations == {"fixed", "exp", "EXP"}
BlockKinds == [shape : Shapes, notation : Notations]

DigitChar(d) ==
    CASE d = 0 -> "0" [] d = 1 -> "1" [] d = 2 -> "2" [] d = 3 -> "3" [] d = 4 -> "4"
      [] d = 5 -> "5" [] d = 6 -> "6" [] d = 7 -> "7" [] d = 8 -> "8" [] d = 9 -> "9"

RECURSIVE ToDigits(_)
ToDigits(n) == IF n < 10 THEN <<DigitChar(n)>> ELSE Append(ToDigits(n \div 10), DigitChar(n % 10))

SlotNumber(i, j) == 12 * (i - 1) + j
SlotNegative(j) == j % 4 = 0

\* the text of slot j of block i: n.5 in fixed notation, n.0e+02 or n.0E+02
\* in exponential notation
SlotText(notation, i, j) ==
    (IF SlotNegative(j) THEN <<"-">> ELSE <<>>)
    \o ToDigits(SlotNumber(i, j))
    \o (CASE notation = "fixed" -> <<".", "5">>
          [] notation = "exp" -> <<".", "0", "e", "+", "0", "2">>
          [] notation = "EXP" -> <<".", "0", "E", "+", "0", "2">>)

\* the number slot j of block i stands for
SlotValue(notation, i, j) ==
    LET n == SlotNumber(i, j)
        sign == IF SlotNegative(j) THEN -1 ELSE 1
    IN  IF notation = "fixed" THEN Normalize(sign * (10 * n + 5), -1)
        ELSE Normalize(sign * n, 2)

\* the fields of line t of block i (t = 0: the normal, 1..3: the vertices)
LineText(b, i, t) ==
    LET n1 == SlotText(b.notation, i, 3 * t + 1)
        n2 == SlotText(b.notation, i, 3 * t + 2)
        n3 == SlotText(b.notation, i, 3 * t + 3)
    IN  IF (b.shape = "short_normal" /\ t = 0) \/ (b.shape = "short_vertex" /\ t = 2)
        THEN <<" ">> \o n1 \o <<" ">> \o n2
        ELSE IF b.shape = "dash" /\ t = 0
        THEN <<" ">> \o n1 \o <<" ">> \o n2 \o <<" ", "-">>
        ELSE <<" ">> \o n1 \o <<" ">> \o n2 \o <<" ">> \o n3

BlockText(b, i) ==
    FacetNormalText \o LineText(b, i, 0) \o <<"\n", " ">>
    \o OuterLoopText \o <<"\n", " ", " ">>
    \o VertexText \o LineText(b, i, 1) \o <<"\n", " ", " ">>
    \o VertexText \o LineText(b, i, 2) \o <<"\n", " ">>
    \o (IF b.shape = "two_vertices" THEN <<>>
        ELSE <<" ">> \o VertexText \o LineText(b, i, 3) \o <<"\n", " ">>)
    \o <<"e", "n", "d", "l", "o", "o", "p", "\n", "e", "n", "d", "f", "a", "c", "e", "t", "\n">>

RECURSIVE BlocksText(_, _)
BlocksText(m, i) == IF i > Len(m) THEN <<>> ELSE BlockText(m[i], i) \o BlocksText(m, i + 1)

MeshText(m) ==
    <<"s", "o", "l", "i", "d", " ", "p", "a", "r", "t", "\n">> \o BlocksText(m, 1) \o <<"e", "n", "d", "s", "o", "l", "i", "d", " ", "p", "a", "r", "t", "\n">>

Meshes == UNION {[1 .. k -> BlockKinds] : k \in 0 .. MaxBlocks}

InitAscii ==
    /\ mesh \in Meshes
    /\ content = MeshText(mesh)
    /\ scan = 0
    /\ pc = "read"
    /\ data = <<>>
    /\ BinIdle
    /\ FmtIdle
    /\ DetIdle

NextAscii == ReadContent \/ NextFacet

SpecAscii == InitAscii /\ [][NextAscii]_vars

(***************************************************************************)
(* Claims about the text parser (checked under SpecAscii)                  *)
(***************************************************************************)
\* the facet block i of the mesh describes
BlockFacet(i) ==
    LET v(j) == SlotValue(mesh[i].notation, i, j)
    IN  [normal |-> <<v(1), v(2), v(3)>>,
         vertices |-> <<<<v(4), v(5), v(6)>>, <<v(7), v(8), v(9)>>, <<v(10), v(11), v(12)>>>>]

WellFormed(i) == mesh[i].shape = "good"

\* C4: when some facet block lacks one of its 12 numeric fields, the parse
\* fails instead of returning a facet list, and no facet ever built takes
\* its normal from one block and its vertices from another.
C4_MalformedBlockFails ==
    (\E i \in 1 .. Len(mesh) : ~WellFormed(i)) =>
        /\ pc # "return"
        /\ \A k \in 1 .. Len(facets) : \A a, b \in 1 .. Len(mesh) :
              (facets[k].normal = BlockFacet(a).normal
               /\ facets[k].vertices = BlockFacet(b).vertices) => a = b

\* C5: a mesh of K well-formed blocks, numbers in fixed or exponential
\* notation, parses into exactly K facets, facet i holding the normal and
\* the three vertices of block i in the block's order.
C5_WellFormedMeshParsed ==
    ((\A i \in 1 .. Len(mesh) : WellFormed(i)) /\ pc = "return") =>
        facets = [i \in 1 .. Len(mesh) |-> BlockFacet(i)]

\* what holds of the code: the same with every exponent written with a
\* lower-case e
WellFormedLowerCaseParsed ==
    ((\A i \in 1 .. Len(mesh) : WellFormed(i) /\ mesh[i].notation # "EXP") /\ pc = "return") =>
        facets = [i \in 1 .. Len(mesh) |-> BlockFacet(i)]

(***************************************************************************)
(* Geometry.  The detectors compute with floats; the model computes in     *)
(* fixed point: a length is an integer number of micrometres (1/1000 mm),  *)
(* an angle an integer number of milliradians, a quotient is rounded down  *)
(* to the unit.  A vertex is <<x, y, z>>.  Comparisons of a distance with  *)
(* a threshold are made on the squares, which is exact.                    *)
(***************************************************************************)
Millimetre == 1000

\* F applied to the value of v, which is computed once
With(v, F(_)) == CHOOSE out \in {F(x) : x \in {v}} : TRUE

\* Python's round(): to the nearest integer, a tie to the even one;
\* here of the quotient n / d, d > 0
RoundHalfEven(n, d) ==
    With(n, LAMBDA m :
        IF 2 * (m % d) < d THEN m \div d
        ELSE IF 2 * (m % d) > d THEN (m \div d) + 1
        ELSE IF (m \div d) % 2 = 0 THEN m \div d ELSE (m \div d) + 1)

\* math.sqrt, rounded down to the unit
RECURSIVE SqrtBetween(_, _, _)
SqrtBetween(n, lo, hi) ==
    IF lo >= hi THEN lo
    ELSE With((lo + hi + 1) \div 2, LAMBDA mid :
            IF mid * mid <= n THEN SqrtBetween(n, mid, hi) ELSE SqrtBetween(n, lo, mid - 1))

Sqrt(n) == With(n, LAMBDA m : SqrtBetween(m, 0, 46340))

\* sum(), min(), max() of a list of numbers
RECURSIVE SumRange(_, _, _)
SumRange(s, a, b) ==
    IF a > b THEN 0
    ELSE IF a = b THEN s[a]
    ELSE With((a + b) \div 2, LAMBDA h : SumRange(s, a, h) + SumRange(s, h + 1, b))

Sum(s) == With(s, LAMBDA t : SumRange(t, 1, Len(t)))

Elements(s) == With(s, LAMBDA t : {t[k] : k \in 1 .. Len(t)})
ListMin(s) == With(Elements(s), LAMBDA T : CHOOSE x \in T : \A y \in T : x <= y)
ListMax(s) == With(Elements(s), LAMBDA T : CHOOSE x \in T : \A y \in T : x >= y)

\* [f(v) for v in s]
Map(s, f(_)) == With(s, LAMBDA t : [k \in 1 .. Len(t) |-> f(t[k])])

\* sorted(S) for a set of numbers
SortedSet(S) ==
    With(S, LAMBDA T :
        [p \in 1 .. Cardinality(T) |->
            CHOOSE x \in T : Cardinality({y \in T : y < x}) = p - 1])

X(v) == v[1]
Y(v) == v[2]
Z(v) == v[3]

\* the square of the distance of vertex v from the point (cx, cy) of the plane
Dist2(v, cx, cy) == (X(v) - cx) * (X(v) - cx) + (Y(v) - cy) * (Y(v) - cy)

(***************************************************************************)
(* detect_helical.py: find_cylinder_axis                                   *)
(***************************************************************************)
\* the mean of the x and of the y coordinates; the division raises
\* ZeroDivisionError on an empty list
CylinderAxis(verts) ==
    With(verts, LAMBDA vs :
        IF Len(vs) = 0 THEN [exc |-> "ZeroDivisionError", value |-> <<>>]
        ELSE [exc |-> "none",
              value |-> <<Sum(Map(vs, X)) \div Len(vs), Sum(Map(vs, Y)) \div Len(vs)>>])

(***************************************************************************)
(* analyze_stl.py: find_cylindrical_features                               *)
(***************************************************************************)
Tolerance == 500
MinLevelPoints == 8
MaxRadiusVariance == 2000000
MinAvgRadius == 1000

\* round(v[2], 2): the height rounded to a hundredth of a millimetre
RoundedHeight(v) == 10 * RoundHalfEven(Z(v), 10)

\* the vertices within the tolerance of height z
LevelVerts(verts, z) ==
    With(z, LAMBDA h : SelectSeq(verts, LAMBDA v : Z(v) - h < Tolerance /\ h - Z(v) < Tolerance))

\* the sample of one height level: centre, mean radius, variance, count
LevelSample(verts, z) ==
    With(LevelVerts(verts, z), LAMBDA lv :
    With(CylinderAxis(lv).value, LAMBDA c :
    With(Map(lv, LAMBDA v : Sqrt(Dist2(v, c[1], c[2]))), LAMBDA radii :
    With(Sum(radii) \div Len(lv), LAMBDA avg :
        [z |-> z, center |-> c, radius |-> avg,
         variance |-> Sum(Map(radii, LAMBDA r : (r - avg) * (r - avg))) \div Len(lv),
         num_points |-> Len(lv)]))))

LevelAcceptedAnyCount(verts, z) ==
    With(LevelSample(verts, z), LAMBDA s :
        s.variance < MaxRadiusVariance /\ s.radius > MinAvgRadius)

\* a level is kept when it has enough points, on a circle of some size
LevelAccepted(verts, z) ==
    /\ Len(LevelVerts(verts, z)) >= MinLevelPoints
    /\ With(LevelSample(verts, z), LAMBDA s :
            s.variance < MaxRadiusVariance /\ s.radius > MinAvgRadius)

CylindricalFeatures(fs) ==
    With(Flatten(fs), LAMBDA verts :
    With(SelectSeq(SortedSet(Elements(Map(verts, RoundedHeight))),
                   LAMBDA z : LevelAccepted(verts, z)), LAMBDA accepted :
        Map(accepted, LAMBDA z : LevelSample(verts, z))))

\* sorted(s, key=K, reverse=True): descending by K, equal keys keep their
\* order (the sort is stable)
SortedDescending(s, K(_)) ==
    With(s, LAMBDA t :
    With([i \in 1 .. Len(t) |->
            1 + Cardinality({j \in 1 .. Len(t) :
                    K(t[j]) > K(t[i]) \/ (K(t[j]) = K(t[i]) /\ j < i)})], LAMBDA rank :
        [p \in 1 .. Len(t) |-> t[CHOOSE i \in 1 .. Len(t) : rank[i] = p]]))

\* the keys of a dict filled in the order of s: each key once, in the order
\* of its first occurrence
KeysInOrder(s, K(_)) ==
    With(Map(s, K), LAMBDA keys :
    With(SelectSeq([k \in 1 .. Len(keys) |-> k],
                   LAMBDA k : \A j \in 1 .. k - 1 : keys[j] # keys[k]), LAMBDA first :
        [p \in 1 .. Len(first) |-> keys[first[p]]]))

\* the index of the first element of s that satisfies P, 0 when none does
FirstIndex(s, P(_)) ==
    With(s, LAMBDA t :
        IF \E k \in 1 .. Len(t) : P(t[k])
        THEN CHOOSE k \in 1 .. Len(t) : P(t[k]) /\ \A j \in 1 .. k - 1 : ~P(t[j])
        ELSE 0)

\* the elements of s at the indexes where the list of keys holds key
AtKey(s, keys, key) ==
    With(SelectSeq([k \in 1 .. Len(keys) |-> k], LAMBDA k : keys[k] = key), LAMBDA at :
        [k \in 1 .. Len(at) |-> s[at[k]]])

\* s without its element at index k
RemoveAt(s, k) == With(s, LAMBDA t : With(k, LAMBDA i :
                      SubSeq(t, 1, i - 1) \o SubSeq(t, i + 1, Len(t))))

(***************************************************************************)
(* better_hole_finder.py: find_vertical_cylinders and cluster_holes        *)
(***************************************************************************)
MinHoleRadius == 2000
MaxHoleRadius == 12000
MinZLevels == 3
MinZSpan == 5
MinHoleVerts == 100
ClusterDistance == 3000

\* round(r * 2) / 2 in half millimetres: the index of the 0.5 mm bucket
HalfMillimetreBucket(len) == RoundHalfEven(2 * len, Millimetre)

\* round(v[2]): the height in whole millimetres
ZBucket(v) == RoundHalfEven(Z(v), Millimetre)

\* lines 63-89: the candidate of one radius bucket; positions are its
\* vertices, in the order of the mesh
RadialCandidate(r, positions) ==
    With(positions, LAMBDA p :
    With(Elements(Map(p, ZBucket)), LAMBDA z_levels :
        IF /\ Cardinality(z_levels) > MinZLevels
           /\ SetMax(z_levels) - SetMin(z_levels) > MinZSpan
           /\ Len(p) > MinHoleVerts
        THEN <<[center_x |-> Sum(Map(p, X)) \div Len(p),
                center_y |-> Sum(Map(p, Y)) \div Len(p),
                z_min |-> ListMin(Map(p, Z)), z_max |-> ListMax(Map(p, Z)),
                depth |-> ListMax(Map(p, Z)) - ListMin(Map(p, Z)),
                radius |-> r * (Millimetre \div 2), diameter |-> r * Millimetre,
                confidence |-> Len(p)]>>
        ELSE <<>>))

\* the concatenation of the lists of s
RECURSIVE Concat(_, _)
Concat(s, k) == IF k = 0 THEN <<>> ELSE Concat(s, k - 1) \o s[k]

VerticalCylinders(fs) ==
    With(Flatten(fs), LAMBDA all_verts :
        IF Len(all_verts) = 0 THEN [exc |-> "ZeroDivisionError", value |-> <<>>]
        ELSE
    With(CylinderAxis(all_verts).value, LAMBDA c :
    With(SelectSeq(all_verts, LAMBDA v :
            /\ Dist2(v, c[1], c[2]) > MinHoleRadius * MinHoleRadius
            /\ Dist2(v, c[1], c[2]) < MaxHoleRadius * MaxHoleRadius), LAMBDA ranged :
    With(Map(ranged, LAMBDA v : HalfMillimetreBucket(Sqrt(Dist2(v, c[1], c[2])))),
         LAMBDA r_bucket :
    With(Map(SortedSet(Elements(r_bucket)),
             LAMBDA r : RadialCandidate(r, AtKey(ranged, r_bucket, r))), LAMBDA found :
        [exc |-> "none", value |-> Concat(found, Len(found))])))))

Confidence(h) == h.confidence

\* the square of the distance between the centres of two holes
CenterDist2(a, b) ==
    (a.center_x - b.center_x) * (a.center_x - b.center_x)
    + (a.center_y - b.center_y) * (a.center_y - b.center_y)

\* one pass of the loop of cluster_holes: the hole goes into the first
\* cluster nearer than the threshold, else it becomes a new cluster
\* every hole after the first goes into the first cluster, however far
ClusterOneIntoFirst(clustered, hole) ==
    IF clustered = <<>> THEN <<hole>> ELSE clustered

ClusterOne(clustered, hole) ==
    With(clustered, LAMBDA cs :
    With(FirstIndex(cs, LAMBDA c : CenterDist2(hole, c) < ClusterDistance * ClusterDistance),
         LAMBDA k :
        IF k = 0 THEN Append(cs, hole)
        ELSE IF hole.confidence > cs[k].confidence
        THEN [cs EXCEPT ![k] = hole]
        ELSE cs))

RECURSIVE ClusterAll(_, _)
ClusterAll(holes, n) ==
    IF n = 0 THEN <<>> ELSE ClusterOne(ClusterAll(holes, n - 1), holes[n])

ClusterHoles(holes) ==
    With(holes, LAMBDA hs :
        IF hs = <<>> THEN <<>>
        ELSE With(SortedDescending(hs, Confidence), LAMBDA sorted :
                  ClusterAll(sorted, Len(sorted))))

(***************************************************************************)
(* find_hole_positions.py: find_holes                                      *)
(***************************************************************************)
MinClusterVerts == 50
MinFittingRadius == 2000
MaxFittingRadius == 6000
DuplicateDistance == 2000

\* (round(x * 2) / 2, round(y * 2) / 2): the 0.5 mm grid cell of a vertex
GridKey(v) == <<HalfMillimetreBucket(X(v)), HalfMillimetreBucket(Y(v))>>

NumVerts(h) == h.num_verts

\* lines 53-78: the candidate of one grid cell; verts are its vertices
GridCandidate(key, verts) ==
    With(verts, LAMBDA vs :
    With(<<key[1] * (Millimetre \div 2), key[2] * (Millimetre \div 2)>>, LAMBDA c :
    With(<<ListMin(Map(vs, Z)), ListMax(Map(vs, Z))>>, LAMBDA zs :
        IF Len(vs) > MinClusterVerts /\ zs[2] - zs[1] > MinZSpan * Millimetre
        THEN With(Sum(Map(vs, LAMBDA v : Sqrt(Dist2(v, c[1], c[2])))) \div Len(vs),
                  LAMBDA avg_r :
                 IF avg_r > MinFittingRadius /\ avg_r < MaxFittingRadius
                 THEN <<[center_x |-> c[1], center_y |-> c[2],
                         z_min |-> zs[1], z_max |-> zs[2], depth |-> zs[2] - zs[1],
                         radius |-> avg_r, diameter |-> 2 * avg_r,
                         num_verts |-> Len(vs)]>>
                 ELSE <<>>)
        ELSE <<>>)))

\* the candidates of lines 51-78, in the order of the dict's keys
HoleCandidates(all_verts) ==
    With(Map(all_verts, GridKey), LAMBDA cells :
    With(Map(KeysInOrder(cells, LAMBDA c : c),
             LAMBDA key : GridCandidate(key, AtKey(all_verts, cells, key))), LAMBDA found :
        Concat(found, Len(found))))

\* one pass of the duplicate-removal loop: a candidate nearer than 2 mm to
\* a kept hole is a duplicate, and replaces it when it has more vertices
DedupOne(unique_holes, h) ==
    With(unique_holes, LAMBDA us :
    With(FirstIndex(us, LAMBDA uh : CenterDist2(h, uh) < DuplicateDistance * DuplicateDistance),
         LAMBDA k :
        IF k = 0 THEN Append(us, h)
        ELSE IF h.num_verts > us[k].num_verts
        THEN Append(RemoveAt(us, FirstIndex(us, LAMBDA u : u = us[k])), h)
        ELSE us))

RECURSIVE DedupAll(_, _)
DedupAll(hs, n) ==
    IF n = 0 THEN <<>> ELSE DedupOne(DedupAll(hs, n - 1), hs[n])

Holes(fs) ==
    With(Flatten(fs), LAMBDA all_verts :
        IF Len(all_verts) = 0 THEN [exc |-> "ValueError", value |-> <<>>]
        ELSE With(HoleCandidates(all_verts), LAMBDA hole_candidates :
                 [exc |-> "none",
                  value |-> SortedDescending(DedupAll(hole_candidates, Len(hole_candidates)),
                                             NumVerts)]))

(***************************************************************************)
(* The detection entry points, each called on the facets of a parsed mesh. *)
(* The meshes are rings of vertices: vertex k lies in direction k % 8 on a *)
(* circle of the ring's radius, one millimetre higher every 8 vertices.    *)
(***************************************************************************)
MaxFacets == 40
FacetCounts == {0, 1, 3, 8, MaxFacets}
RingRadii == {800, 1500, 3000, 5000, 13000}
RingCentres == {<<0, 0>>, <<10000, -5000>>}
\* (cos, sin) of the sixteenths of a turn, in thousandths
Directions == <<<<1000, 0>>, <<924, 383>>, <<707, 707>>, <<383, 924>>,
                <<0, 1000>>, <<-383, 924>>, <<-707, 707>>, <<-924, 383>>,
                <<-1000, 0>>, <<-924, -383>>, <<-707, -707>>, <<-383, -924>>,
                <<0, -1000>>, <<383, -924>>, <<707, -707>>, <<924, -383>>>>

\* vertex k (from 0) of the ring of radius r around centre c
RingVertex(k, r, c) ==
    LET d == Directions[2 * (k % 8) + 1]
    IN  <<c[1] + (r * d[1]) \div 1000, c[2] + (r * d[2]) \div 1000, (k \div 8) * Millimetre>>

RingFacet(i, r, c) ==
    [normal |-> <<0, 0, 0>>,
     vertices |-> <<RingVertex(3 * i, r, c), RingVertex(3 * i + 1, r, c),
                    RingVertex(3 * i + 2, r, c)>>]

RingMesh(n, r, c) == [i \in 1 .. n |-> RingFacet(i - 1, r, c)]

Meshes3D == {RingMesh(n, r, c) : n \in FacetCounts, r \in RingRadii, c \in RingCentres}

\* the same rings in thin layers: the levels lie 0.3 mm apart, nearer than
\* the tolerance of find_cylindrical_features
LayerStep == (3 * Millimetre) \div 10
LayerCounts == {3, 8}

LayerVertex(k, r, c) ==
    <<RingVertex(k, r, c)[1], RingVertex(k, r, c)[2], (k \div 8) * LayerStep>>

LayerFacet(i, r, c) ==
    [normal |-> <<0, 0, 0>>,
     vertices |-> <<LayerVertex(3 * i, r, c), LayerVertex(3 * i + 1, r, c),
                    LayerVertex(3 * i + 2, r, c)>>]

LayerMesh(n, r, c) == [i \in 1 .. n |-> LayerFacet(i - 1, r, c)]

LayerMeshes == {LayerMesh(n, 3 * Millimetre, c) : n \in LayerCounts, c \in RingCentres}

FindCylindricalFeatures ==
    /\ pc = "entry"
    /\ entry' = "find_cylindrical_features"
    /\ result' = CylindricalFeatures(facets)
    /\ pc' = "done"
    /\ UNCHANGED <<facets, vertices, exc, notDet>>

FindCylinderAxis ==
    /\ pc = "entry"
    /\ entry' = "find_cylinder_axis"
    /\ LET r == CylinderAxis(Flatten(facets))
       IN  /\ exc' = r.exc
           /\ result' = r.value
           /\ pc' = IF r.exc = "none" THEN "done" ELSE "raised"
    /\ UNCHANGED <<facets, vertices, notDet>>

FindVerticalCylinders ==
    /\ pc = "entry"
    /\ entry' = "find_vertical_cylinders"
    /\ LET r == VerticalCylinders(facets)
       IN  /\ exc' = r.exc
           /\ result' = r.value
           /\ pc' = IF r.exc = "none" THEN "cluster_holes" ELSE "raised"
    /\ UNCHANGED <<facets, vertices, notDet>>

\* main of better_hole_finder.py passes the candidates on to cluster_holes
ClusterHolesCall ==
    /\ pc = "cluster_holes"
    /\ entry' = "cluster_holes"
    /\ result' = ClusterHoles(result)
    /\ pc' = "done"
    /\ UNCHANGED <<facets, vertices, exc, notDet>>

FindHoles ==
    /\ pc = "entry"
    /\ entry' = "find_holes"
    /\ LET r == Holes(facets)
       IN  /\ exc' = r.exc
           /\ result' = r.value
           /\ pc' = IF r.exc = "none" THEN "done" ELSE "raised"
    /\ UNCHANGED <<facets, vertices, notDet>>

InitEntry ==
    /\ facets \in Meshes3D \cup LayerMeshes
    /\ pc = "entry"
    /\ data = <<>> /\ variant = "none" /\ pos = 0 /\ num_triangles = 0 /\ idx = 0
    /\ vertices = <<>> /\ exc = "none"
    /\ FmtIdle /\ TxtIdle /\ DetIdle

NextEntry ==
    \/ FindCylindricalFeatures
    \/ FindCylinderAxis
    \/ FindVerticalCylinders
    \/ ClusterHolesCall
    \/ FindHoles

SpecEntry == InitEntry /\ [][NextEntry]_vars

\* C7: on a mesh with zero triangles every detection entry point completes
\* without raising an error and reports an empty result
C7_EmptyMeshNeverRaises ==
    (facets = <<>> /\ entry # "none") => (exc = "none" /\ pc # "raised" /\ result = <<>>)

\* the entry points that do complete on the empty mesh
C7_EmptyMeshCompletes ==
    (facets = <<>> /\ entry \in {"find_cylindrical_features", "cluster_holes"})
        => (exc = "none" /\ result = <<>>)

(***************************************************************************)
(* detect_helical.py: detect_helical_pattern.  An angle is an integer      *)
(* number of milliradians, a slope d(angle)/d(z) an integer number of      *)
(* milliradians per millimetre; a quotient of angles is rounded to the     *)
(* nearest unit.  The value the function returns is a tuple: empty for     *)
(* None, the one dict for a classification.                                *)
(***************************************************************************)
Pi == 3142
TwoPi == 6283
HalfPi == 1571
None == <<>>

Abs(n) == IF n < 0 THEN -n ELSE n

\* atan of 0.0, 0.1 .. 1.0
AtanTable == <<0, 100, 197, 291, 381, 464, 540, 611, 675, 733, 785>>

\* atan(num / den) for 0 <= num <= den, den > 0: the table, interpolated
AtanRatio(num, den) ==
    With((num * 1000) \div den, LAMBDA t :
        IF t >= 1000 THEN AtanTable[11]
        ELSE AtanTable[(t \div 100) + 1]
             + RoundHalfEven((AtanTable[(t \div 100) + 2] - AtanTable[(t \div 100) + 1])
                             * (t % 100), 100))

\* math.atan2(dy, dx), in (-Pi, Pi]
Atan2(dy, dx) ==
    With(<<Abs(dx), Abs(dy)>>, LAMBDA a :
    With(IF a[1] = 0 /\ a[2] = 0 THEN 0
         ELSE IF a[2] <= a[1] THEN AtanRatio(a[2], a[1])
         ELSE HalfPi - AtanRatio(a[1], a[2]), LAMBDA t :
        IF dx >= 0 THEN (IF dy >= 0 THEN t ELSE -t)
        ELSE (IF dy >= 0 THEN Pi - t ELSE t - Pi)))

\* lines 57-70: the vertices inside the radius band, ends included, with
\* their cylindrical coordinates around the axis c
CylindricalVerts(fs, c, band) ==
    With(SelectSeq(Flatten(fs), LAMBDA v :
            /\ band[1] * band[1] <= Dist2(v, c[1], c[2])
            /\ Dist2(v, c[1], c[2]) <= band[2] * band[2]), LAMBDA inBand :
        Map(inBand, LAMBDA v :
            [x |-> X(v), y |-> Y(v), z |-> Z(v),
             r |-> Sqrt(Dist2(v, c[1], c[2])),
             theta |-> Atan2(Y(v) - c[2], X(v) - c[1])]))

\* round(v['z'] * 5) / 5: the index of the 0.2 mm height bucket
BucketWidth == 200
ZAngleBucket(v) == RoundHalfEven(5 * v.z, Millimetre)

Theta(v) == v.theta
Radius(v) == v.r

\* sorted(z_angle_data.keys())
ZSorted(cylindrical_verts) == SortedSet(Elements(Map(cylindrical_verts, ZAngleBucket)))

\* lines 93-107: the entry of one height bucket, when it holds more than
\* 3 angles
MinAngles == 3
LevelProgression(b, members) ==
    With(members, LAMBDA m :
        IF Len(m) > MinAngles
        THEN <<[z |-> b * BucketWidth,
                avg_angle |-> RoundHalfEven(Sum(Map(m, Theta)), Len(m)),
                angle_spread |-> ListMax(Map(m, Theta)) - ListMin(Map(m, Theta)),
                num_verts |-> Len(m),
                avg_radius |-> Sum(Map(m, Radius)) \div Len(m)]>>
        ELSE <<>>)

ZAngleProgression(cylindrical_verts) ==
    With(cylindrical_verts, LAMBDA cv :
    With(Map(cv, ZAngleBucket), LAMBDA keys :
    With(Map(SortedSet(Elements(keys)),
             LAMBDA b : LevelProgression(b, AtKey(cv, keys, b))), LAMBDA found :
        Concat(found, Len(found)))))

\* the difference of two angles taken as it is
UnwrapNever(da) == da

\* lines 135-139: the difference of two angles, unwrapped
Unwrap(da) ==
    IF da > Pi THEN da - TwoPi
    ELSE IF da < -Pi THEN da + TwoPi
    ELSE da

\* lines 125-142: the slope between each entry and the next
MinDz == 10
AngleZDerivatives(progression) ==
    With(progression, LAMBDA p :
    With([i \in 1 .. Len(p) - 1 |->
            IF p[i + 1].z - p[i].z > MinDz
            THEN <<RoundHalfEven(Unwrap(p[i + 1].avg_angle - p[i].avg_angle) * Millimetre,
                                 p[i + 1].z - p[i].z)>>
            ELSE <<>>], LAMBDA found :
        Concat(found, Len(found))))

AvgDerivative(ds) == RoundHalfEven(Sum(ds), Len(ds))

DerivativeVariance(ds) ==
    With(AvgDerivative(ds), LAMBDA avg :
        Sum(Map(ds, LAMBDA d : (d - avg) * (d - avg))) \div Len(ds))

\* line 155: consistent slopes (low variance) that are not zero
MaxDerivativeVariance == 10000
MinDerivative == 10
MinPitchDerivative == 1

IsHelicalAnyVariance(variance, avg) == Abs(avg) > MinDerivative

IsHelical(variance, avg) == variance < MaxDerivativeVariance /\ Abs(avg) > MinDerivative

\* line 161: 2 * math.pi / abs(avg_derivative), in micrometres
PitchSigned(avg) == (TwoPi * Millimetre) \div avg

Pitch(avg) == (TwoPi * Millimetre) \div Abs(avg)

\* line 176
Handedness(avg) == IF avg > 0 THEN "right" ELSE "left"

\* lines 144-183: the classification from the slopes
Classification(progression, ds) ==
    With(AvgDerivative(ds), LAMBDA avg_derivative :
    With(DerivativeVariance(ds), LAMBDA derivative_variance :
        IF /\ IsHelical(derivative_variance, avg_derivative)
           /\ Abs(avg_derivative) > MinPitchDerivative
        THEN With(Sum(Map(progression, LAMBDA d : d.avg_radius)) \div Len(progression),
                  LAMBDA avg_r :
                 <<[is_helical |-> TRUE,
                    pitch |-> Pitch(avg_derivative),
                    radius |-> avg_r,
                    diameter |-> avg_r * 2,
                    handedness |-> Handedness(avg_derivative)]>>)
        ELSE <<[is_helical |-> FALSE]>>))

MinZLevelsHelix == 5
MinProgression == 5

DetectHelicalPattern(fs, c, band) ==
    With(CylindricalVerts(fs, c, band), LAMBDA cylindrical_verts :
        IF Len(cylindrical_verts) = 0 THEN None
        ELSE IF Len(ZSorted(cylindrical_verts)) < MinZLevelsHelix THEN None
        ELSE
    With(ZAngleProgression(cylindrical_verts), LAMBDA z_angle_progression :
        IF Len(z_angle_progression) < MinProgression THEN None
        ELSE
    With(AngleZDerivatives(z_angle_progression), LAMBDA angle_z_derivatives :
        IF Len(angle_z_derivatives) = 0 THEN None
        ELSE Classification(z_angle_progression, angle_z_derivatives))))

(***************************************************************************)
(* The meshes the detector is run on: vertex k lies on level k \div        *)
(* per_level, the levels spacing apart, in a direction that turns by twist *)
(* sixteenths of a turn from a level to the next, by jitter more on every  *)
(* second level, and by spread from a vertex of a level to the next.       *)
(***************************************************************************)
MaxHelixFacets == 8
HelixFacetCounts == {0, 1, 6, 7, MaxHelixFacets}
PerLevel == {3, 4}
Twists == {-1, 0, 1, 3}
Jitters == {0, 3}
Spreads == {0, 1}
Spacings == {200, 1000}
HelixRadii == {3000, 6500}

HelixVertex(k, p) ==
    LET level == k \div p.per_level
        turn == p.twist * level + p.jitter * (level % 2) + p.spread * (k % p.per_level)
        d == Directions[(turn % 16) + 1]
    IN  <<(p.radius * d[1]) \div 1000, (p.radius * d[2]) \div 1000, level * p.spacing>>

HelixFacet(i, p) ==
    [normal |-> <<0, 0, 0>>,
     vertices |-> <<HelixVertex(3 * i, p), HelixVertex(3 * i + 1, p), HelixVertex(3 * i + 2, p)>>]

HelixMesh(p) == [i \in 1 .. p.n |-> HelixFacet(i - 1, p)]

HelixParams ==
    [n : HelixFacetCounts, per_level : PerLevel, twist : Twists, jitter : Jitters,
     spread : Spreads, spacing : Spacings, radius : HelixRadii]

HelixMeshes == {HelixMesh(p) : p \in HelixParams}

\* main of detect_helical.py: the bands it tests, in this order
RadiusRanges == <<<<2000, 5000>>, <<4000, 7000>>, <<6000, 9000>>, <<8000, 11000>>>>

\* detect_helical_pattern's own default band, and the axes of a direct call
DefaultRadiusRange == <<2000, 8000>>
AxisChoices == {<<0, 0>>, <<500, 0>>}

\* main, line 199: cx, cy = find_cylinder_axis(facets)
MainFindAxis ==
    /\ pc = "entry"
    /\ entry' = "find_cylinder_axis"
    /\ LET r == CylinderAxis(Flatten(facets))
       IN  /\ exc' = r.exc
           /\ axis' = r.value
           /\ pc' = IF r.exc = "none" THEN "ranges" ELSE "raised"
    /\ UNCHANGED <<result, radius_range, range_idx, detected_helices, notHel>>

\* main, lines 211-217: one pass of the loop over the bands
MainTestRange ==
    /\ pc = "ranges"
    /\ range_idx < Len(RadiusRanges)
    /\ range_idx' = range_idx + 1
    /\ radius_range' = RadiusRanges[range_idx + 1]
    /\ entry' = "detect_helical_pattern"
    /\ result' = DetectHelicalPattern(facets, axis, RadiusRanges[range_idx + 1])
    /\ detected_helices' =
          IF result' # None /\ result'[1].is_helical
          THEN Append(detected_helices, <<range_idx + 1, result'[1]>>)
          ELSE detected_helices
    /\ UNCHANGED <<pc, exc, axis, notHel>>

\* main, lines 219-235: the summary, after the last band
MainSummary ==
    /\ pc = "ranges"
    /\ range_idx = Len(RadiusRanges)
    /\ entry' = "summary"
    /\ pc' = "done"
    /\ UNCHANGED <<exc, result, helVars, notHel>>

\* detect_helical_pattern called on its own, with the default band
DetectHelicalPatternCall ==
    /\ pc = "entry"
    /\ \E c \in AxisChoices :
          /\ axis' = c
          /\ radius_range' = DefaultRadiusRange
          /\ result' = DetectHelicalPattern(facets, c, DefaultRadiusRange)
    /\ entry' = "detect_helical_pattern"
    /\ pc' = "done"
    /\ UNCHANGED <<exc, range_idx, detected_helices, notHel>>

\* a thread: vertex k lies a sixteenth of a turn further round than vertex
\* k - 1 and rise higher, so that the pitch is 16 times the rise
MaxThreadFacets == 12
ThreadRises == {25, 100}
ThreadHands == {-1, 1}

ThreadVertex(k, p) ==
    LET d == Directions[((p.hand * k) % 16) + 1]
    IN  <<(p.radius * d[1]) \div 1000, (p.radius * d[2]) \div 1000, k * p.rise>>

ThreadFacet(i, p) ==
    [normal |-> <<0, 0, 0>>,
     vertices |-> <<ThreadVertex(3 * i, p), ThreadVertex(3 * i + 1, p),
                    ThreadVertex(3 * i + 2, p)>>]

ThreadMesh(p) == [i \in 1 .. MaxThreadFacets |-> ThreadFacet(i - 1, p)]

ThreadParams == [hand : ThreadHands, rise : ThreadRises, radius : HelixRadii]

ThreadMeshes == {ThreadMesh(p) : p \in ThreadParams}

InitHelix ==
    /\ facets \in HelixMeshes \cup ThreadMeshes
    /\ pc = "entry"
    /\ data = <<>> /\ variant = "none" /\ pos = 0 /\ num_triangles = 0 /\ idx = 0
    /\ vertices = <<>> /\ exc = "none"
    /\ FmtIdle /\ TxtIdle /\ DetIdle

NextHelix ==
    \/ MainFindAxis
    \/ MainTestRange
    \/ MainSummary
    \/ DetectHelicalPatternCall

SpecHelix == InitHelix /\ [][NextHelix]_vars

\* detect_helical_pattern has just returned: result is what it returned on
\* facets, axis and radius_range
Detected == entry = "detect_helical_pattern"

\* the height buckets that hold more than 3 points of the band
BucketsWithData == ZAngleProgression(CylindricalVerts(facets, axis, radius_range))

\* the average and the variance of a list of slopes
SlopeStats(slopes) ==
    With(RoundHalfEven(Sum(slopes), Len(slopes)), LAMBDA mean :
        [avg |-> mean,
         variance |-> Sum([k \in 1 .. Len(slopes) |->
                             (slopes[k] - mean) * (slopes[k] - mean)]) \div Len(slopes)])

\* the buckets with data and, when there are 5 of them, the average and the
\* variance of the per-pair slopes
Evidence ==
    With(BucketsWithData, LAMBDA buckets :
        IF Len(buckets) < 5 THEN [buckets |-> Len(buckets)]
        ELSE With(AngleZDerivatives(buckets), LAMBDA slopes :
                 [buckets |-> Len(buckets),
                  avg |-> SlopeStats(slopes).avg,
                  variance |-> SlopeStats(slopes).variance]))

\* C8: when the detector lacks data (fewer than 5 height buckets hold more
\* than 3 points of the band, which covers an empty band and fewer than 5
\* buckets), it returns a classification whose is_helical is false, not an
\* absent result
C8_InsufficientDataClassified ==
    (Detected /\ Len(BucketsWithData) < 5)
        => (result # None /\ result[1].is_helical = FALSE)

\* what the code does instead: it returns no result at all
C8_InsufficientDataAbsent ==
    (Detected /\ Len(BucketsWithData) < 5) => result = None

\* C9: when at least 5 height buckets have data, the detector returns a
\* classification, and is_helical is true exactly when the variance of the
\* slopes is below 0.01 and the magnitude of their average is above 0.01
C9_HelicalIffConsistentSlope ==
    Detected =>
        With(Evidence, LAMBDA e :
            e.buckets >= 5 =>
                /\ result # None
                /\ result[1].is_helical = (e.variance < 10000 /\ Abs(e.avg) > 10))

C9_Witness ==
    /\ Detected /\ result # None /\ result[1].is_helical
    /\ With(Evidence, LAMBDA e :
            e.buckets >= 5 /\ e.variance < 10000 /\ Abs(e.avg) > 10)

C9_WitnessIrregular ==
    /\ Detected /\ result = <<[is_helical |-> FALSE]>>
    /\ With(Evidence, LAMBDA e :
            e.buckets >= 5 /\ e.variance >= 10000 /\ Abs(e.avg) > 10)

C9_WitnessSmooth ==
    /\ Detected /\ result = <<[is_helical |-> FALSE]>>
    /\ With(Evidence, LAMBDA e :
            e.buckets >= 5 /\ e.variance < 10000 /\ Abs(e.avg) <= 10)

\* C10: a result with is_helical true carries a strictly positive pitch,
\* 2*pi over the magnitude of the average slope, and the handedness of the
\* sign of the average slope; a result with is_helical false carries
\* neither a pitch nor a handedness
C10_PitchAndHandedness ==
    (Detected /\ result # None)
        => IF result[1].is_helical
           THEN With(Evidence, LAMBDA e :
                    /\ e.buckets >= 5
                    /\ result[1].pitch > 0
                    /\ result[1].pitch = (6283 * 1000) \div Abs(e.avg)
                    /\ (result[1].handedness = "right") = (e.avg > 0)
                    /\ (result[1].handedness = "left") = (e.avg < 0))
           ELSE DOMAIN result[1] = {"is_helical"}

C10_Witness ==
    /\ Detected /\ result # None /\ result[1].is_helical
    /\ result[1].handedness = "left" /\ result[1].pitch > 0
    /\ Evidence.avg < 0

C10_WitnessRight ==
    /\ Detected /\ result # None /\ result[1].is_helical
    /\ result[1].handedness = "right" /\ result[1].pitch > 0
    /\ Evidence.avg > 0

C10_WitnessNotHelical ==
    Detected /\ result = <<[is_helical |-> FALSE]>>

\* the sets of angles of the height buckets of the band
BucketAngles ==
    With(CylindricalVerts(facets, axis, radius_range), LAMBDA cv :
    With(Map(cv, ZAngleBucket), LAMBDA keys :
        {{cv[k].theta : k \in {j \in 1 .. Len(cv) : keys[j] = b}} : b \in Elements(keys)}))

\* a non-rotating cylinder: there are vertices in the band, and every
\* height bucket holds the same set of angles
PerfectCylinder == Cardinality(BucketAngles) = 1

\* C11: on a perfect non-rotating cylinder the detector reports
\* is_helical = false
C11_CylinderNotHelical ==
    (Detected /\ PerfectCylinder) => (result # None /\ result[1].is_helical = FALSE)

\* what holds instead: on a perfect non-rotating cylinder the detector never
\* reports a helix, and reports is_helical = false when 5 buckets have data
C11_CylinderNeverHelical ==
    (Detected /\ PerfectCylinder)
        => /\ result # None => result[1].is_helical = FALSE
           /\ Len(BucketsWithData) >= 5 => result # None

C11_WitnessClassified ==
    Detected /\ PerfectCylinder /\ result = <<[is_helical |-> FALSE]>>

\* the meshes whose vertices lie on a helix around the axis (0, 0), with the
\* pitch, the hand and the radius they were generated with
KnownHelices ==
    {[mesh |-> HelixMesh(p), pitch |-> (16 * p.spacing) \div Abs(p.twist),
      hand |-> IF p.twist > 0 THEN "right" ELSE "left", radius |-> p.radius] :
        p \in {q \in HelixParams : q.n > 0 /\ q.twist # 0 /\ q.jitter = 0 /\ q.spread = 0}}
    \cup
    {[mesh |-> ThreadMesh(p), pitch |-> 16 * p.rise,
      hand |-> IF p.hand > 0 THEN "right" ELSE "left", radius |-> p.radius] :
        p \in ThreadParams}

\* the known helices the detector has just been run on, around their axis
\* and with their radius inside the band
DetectedHelix ==
    IF Detected /\ axis = <<0, 0>>
    THEN {h \in KnownHelices :
            /\ h.mesh = facets
            /\ radius_range[1] <= h.radius /\ h.radius <= radius_range[2]}
    ELSE {}

\* the pitch is within 10% of P
PitchNear(pitch, P) == 10 * Abs(pitch - P) <= P

\* C12: on a synthetic helix of known pitch and radius inside the band the
\* detector reports is_helical = true, a pitch within 10% of the known one
\* and the hand of the helix
C12_HelixRecovered ==
    \A h \in DetectedHelix :
        /\ result # None
        /\ result[1].is_helical
        /\ PitchNear(result[1].pitch, h.pitch)
        /\ result[1].handedness = h.hand

\* what holds instead: when the detector does report a helix on a known
\* helix, the pitch and the hand are those of the helix
C12_RecoveredWhenHelical ==
    \A h \in DetectedHelix :
        (result # None /\ result[1].is_helical)
            => /\ PitchNear(result[1].pitch, h.pitch)
               /\ result[1].handedness = h.hand

C12_WitnessRecovered ==
    \E h \in DetectedHelix :
        /\ result # None /\ result[1].is_helical
        /\ PitchNear(result[1].pitch, h.pitch) /\ result[1].handedness = h.hand

C12_WitnessThreadMissed ==
    \E h \in DetectedHelix :
        /\ h.mesh \in ThreadMeshes
        /\ result = <<[is_helical |-> FALSE]>>

(***************************************************************************)
(* The clustering loops: cluster_holes, the duplicate removal of           *)
(* find_thread_holes_locally and the merge of find_ports_on_right_face,    *)
(* one action for each pass of a loop.                                     *)
(***************************************************************************)
ThreadDuplicateDistance == 2000
PortMergeDistance == 3000

\* find_inner_holes.py, lines 88-97: a hole nearer than 2 mm to a kept hole
\* is dropped
\* every hole is kept, however near a kept hole it lies
ThreadDedupNever(unique_holes, h) == Append(unique_holes, h)

ThreadDedupOne(unique_holes, h) ==
    With(unique_holes, LAMBDA us :
        IF FirstIndex(us, LAMBDA uh :
              CenterDist2(h, uh) < ThreadDuplicateDistance * ThreadDuplicateDistance) = 0
        THEN Append(us, h)
        ELSE us)

\* find_right_face_ports.py, line 111: the square of the distance of two
\* holes of the right face, in the YZ plane
PortDist2(a, b) == (a.y - b.y) * (a.y - b.y) + (a.z - b.z) * (a.z - b.z)

\* find_right_face_ports.py, lines 107-122: a hole nearer than 3 mm to a
\* kept hole adds its vertex count to it, and its diameter when larger
PortMergeOne(unique_holes, h) ==
    With(unique_holes, LAMBDA us :
    With(FirstIndex(us, LAMBDA uh : PortDist2(h, uh) < PortMergeDistance * PortMergeDistance),
         LAMBDA k :
        IF k = 0 THEN Append(us, h)
        ELSE IF h.diameter > us[k].diameter
        THEN [us EXCEPT ![k] = [@ EXCEPT !.num_verts = @ + h.num_verts,
                                         !.diameter = h.diameter,
                                         !.radius = h.radius]]
        ELSE [us EXCEPT ![k] = [@ EXCEPT !.num_verts = @ + h.num_verts]]))

RECURSIVE ThreadDedupAll(_, _)
ThreadDedupAll(hs, n) ==
    IF n = 0 THEN <<>> ELSE ThreadDedupOne(ThreadDedupAll(hs, n - 1), hs[n])

\* find_inner_holes.py, lines 87-99, as one function of the holes
UniqueThreadHoles(found) ==
    With(SortedDescending(found, NumVerts), LAMBDA sorted : ThreadDedupAll(sorted, Len(sorted)))

RECURSIVE PortMergeAll(_, _)
PortMergeAll(hs, n) ==
    IF n = 0 THEN <<>> ELSE PortMergeOne(PortMergeAll(hs, n - 1), hs[n])

\* find_right_face_ports.py, lines 105-124, as one function of the holes
MergedPorts(found) ==
    With(SortedDescending(found, NumVerts), LAMBDA sorted : PortMergeAll(sorted, Len(sorted)))

\* the index of the candidate the loop takes for h: the first one nearer
\* than the limit, or a new one at the end of the list
HoleTarget(candidates, h, limit) ==
    With(FirstIndex(candidates, LAMBDA c : CenterDist2(h, c) < limit * limit), LAMBDA k :
        IF k = 0 THEN Len(candidates) + 1 ELSE k)

PortTarget(candidates, h, limit) ==
    With(FirstIndex(candidates, LAMBDA c : PortDist2(h, c) < limit * limit), LAMBDA k :
        IF k = 0 THEN Len(candidates) + 1 ELSE k)

(***************************************************************************)
(* The holes given to the loops: up to MaxSamples holes at different       *)
(* places of a line, each with a vertex count and either a short range and *)
(* a small radius or a long range and a large radius.  Each function reads *)
(* them in its own layout.                                                 *)
(***************************************************************************)
MaxSamples == 3
Positions == {0, 1500, 3200, 4700}
VertexCounts == {110, 120, 130}

SampleParams == [at : Positions, n : VertexCounts, wide : BOOLEAN]

SampleLists ==
    {s \in UNION {[1 .. n -> SampleParams] : n \in 0 .. MaxSamples} :
        \A i, j \in 1 .. Len(s) : i # j => s[i].at # s[j].at}

RangeLow(s) == IF s.wide THEN -1000 ELSE 0
RangeHigh(s) == IF s.wide THEN 8000 ELSE 6000
SampleRadius(s) == IF s.wide THEN 3500 ELSE 3000

\* a hole as find_vertical_cylinders reports it
HoleDict(s) ==
    [center_x |-> s.at, center_y |-> 0,
     z_min |-> RangeLow(s), z_max |-> RangeHigh(s), depth |-> RangeHigh(s) - RangeLow(s),
     radius |-> SampleRadius(s), diameter |-> 2 * SampleRadius(s), confidence |-> s.n]

\* a hole as find_thread_holes_locally collects it
CandidateDict(s) ==
    [center_x |-> s.at, center_y |-> 0,
     z_min |-> RangeLow(s), z_max |-> RangeHigh(s), depth |-> RangeHigh(s) - RangeLow(s),
     radius |-> SampleRadius(s), diameter |-> 2 * SampleRadius(s), num_verts |-> s.n]

\* a hole as find_ports_on_right_face collects it
PortDict(s) ==
    [y |-> s.at, z |-> 0,
     x_max |-> RangeHigh(s), x_min |-> RangeLow(s),
     radius |-> SampleRadius(s), diameter |-> 2 * SampleRadius(s),
     depth |-> RangeHigh(s) - RangeLow(s), num_verts |-> s.n]

\* where a dict stands in a list of dicts
IndexIn(list, h) == FirstIndex(list, LAMBDA d : d = h)

\* the holes in the order each loop takes them
ClusterOrderAsGiven == Map(samples, HoleDict)

ClusterOrder == SortedDescending(Map(samples, HoleDict), Confidence)
ThreadOrder == SortedDescending(Map(samples, CandidateDict), NumVerts)
PortOrder == SortedDescending(Map(samples, PortDict), NumVerts)

\* better_hole_finder.py, lines 95-99: no hole gives the empty list at once
ClusterHolesBegin ==
    /\ pc = "entry"
    /\ entry' = "cluster_holes"
    /\ result' = <<>>
    /\ idx' = 0
    /\ merged_into' = <<>>
    /\ input_holes' = Map(samples, HoleDict)
    /\ origin' = <<>>
    /\ pc' = IF samples = <<>> THEN "done" ELSE "loop"
    /\ UNCHANGED <<samples, notClu>>

\* better_hole_finder.py, lines 100-115: one pass of the loop over the holes
ClusterHolesTake ==
    /\ pc = "loop" /\ entry = "cluster_holes"
    /\ idx < Len(samples)
    /\ LET hole == ClusterOrder[idx + 1]
           k == HoleTarget(result, hole, ClusterDistance)
       IN  /\ result' = ClusterOne(result, hole)
           /\ merged_into' = Append(merged_into, k)
           \* line 115: a hole that starts a cluster is copied
           /\ origin' = IF k > Len(result) THEN Append(origin, 0) ELSE origin
    /\ idx' = idx + 1
    /\ UNCHANGED <<pc, entry, samples, input_holes, notClu>>

\* better_hole_finder.py, line 117
ClusterHolesReturn ==
    /\ pc = "loop" /\ entry = "cluster_holes"
    /\ idx = Len(samples)
    /\ pc' = "done"
    /\ UNCHANGED <<entry, result, idx, samples, merged_into, input_holes, origin, notClu>>

\* find_inner_holes.py, line 87
FindThreadHolesBegin ==
    /\ pc = "entry"
    /\ entry' = "find_thread_holes_locally"
    /\ result' = <<>>
    /\ idx' = 0
    /\ merged_into' = <<>>
    /\ input_holes' = Map(samples, CandidateDict)
    /\ origin' = <<>>
    /\ pc' = "loop"
    /\ UNCHANGED <<samples, notClu>>

\* find_inner_holes.py, lines 88-97
FindThreadHolesTake ==
    /\ pc = "loop" /\ entry = "find_thread_holes_locally"
    /\ idx < Len(samples)
    /\ LET h == ThreadOrder[idx + 1]
           k == HoleTarget(result, h, ThreadDuplicateDistance)
       IN  /\ result' = ThreadDedupOne(result, h)
           /\ merged_into' = Append(merged_into, k)
           \* line 97: the dict of the list is appended itself
           /\ origin' = IF k > Len(result)
                         THEN Append(origin, IndexIn(input_holes, h)) ELSE origin
    /\ idx' = idx + 1
    /\ UNCHANGED <<pc, entry, samples, input_holes, notClu>>

\* find_inner_holes.py, line 99
FindThreadHolesReturn ==
    /\ pc = "loop" /\ entry = "find_thread_holes_locally"
    /\ idx = Len(samples)
    /\ pc' = "done"
    /\ UNCHANGED <<entry, result, idx, samples, merged_into, input_holes, origin, notClu>>

\* find_right_face_ports.py, line 105
FindPortsBegin ==
    /\ pc = "entry"
    /\ entry' = "find_ports_on_right_face"
    /\ result' = <<>>
    /\ idx' = 0
    /\ merged_into' = <<>>
    /\ input_holes' = Map(samples, PortDict)
    /\ origin' = <<>>
    /\ pc' = "loop"
    /\ UNCHANGED <<samples, notClu>>

\* find_right_face_ports.py, lines 107-122
FindPortsTake ==
    /\ pc = "loop" /\ entry = "find_ports_on_right_face"
    /\ idx < Len(samples)
    /\ LET h == PortOrder[idx + 1]
           k == PortTarget(result, h, PortMergeDistance)
           merged == PortMergeOne(result, h)
       IN  /\ result' = merged
           /\ merged_into' = Append(merged_into, k)
           \* line 122: the dict of the list is appended itself, so that
           \* lines 114-117 write into a dict of the list
           /\ origin' = IF k > Len(result)
                         THEN Append(origin, IndexIn(input_holes, h)) ELSE origin
           /\ input_holes' = IF k > Len(result) THEN input_holes
                              ELSE [input_holes EXCEPT ![origin[k]] = merged[k]]
    /\ idx' = idx + 1
    /\ UNCHANGED <<pc, entry, samples, notClu>>

\* find_right_face_ports.py, line 124: the kept holes go back as they are
FindPortsReturn ==
    /\ pc = "loop" /\ entry = "find_ports_on_right_face"
    /\ idx = Len(samples)
    /\ pc' = "done"
    /\ UNCHANGED <<entry, result, idx, samples, merged_into, input_holes, origin, notClu>>

\* cluster_holes is called with a list of holes, and the loops of
\* find_thread_holes_locally and find_ports_on_right_face run on the holes
\* their grid searches collected; find_holes collects its own candidates
\* from the facets of a mesh
InitCluster ==
    /\ \/ samples \in SampleLists /\ facets = <<>>
       \/ samples = <<>> /\ facets \in Meshes3D
    /\ merged_into = <<>> /\ input_holes = <<>> /\ origin = <<>>
    /\ pc = "entry"
    /\ entry = "none" /\ result = <<>>
    /\ data = <<>> /\ variant = "none" /\ pos = 0 /\ num_triangles = 0 /\ idx = 0
    /\ vertices = <<>> /\ exc = "none"
    /\ FmtIdle /\ TxtIdle
    /\ axis = <<>> /\ radius_range = <<>> /\ range_idx = 0 /\ detected_helices = <<>>
    /\ test_radius = 0
    /\ face_verts = <<>> /\ cells_left = <<>> /\ workers = <<>> /\ holes_found = <<>>
    /\ ScanIdle
    /\ script = <<>> /\ line_num = 0 /\ written = <<>> /\ responses = <<>>

NextCluster ==
    \/ ClusterHolesBegin
    \/ ClusterHolesTake
    \/ ClusterHolesReturn
    \/ FindHoles
    \/ FindThreadHolesBegin
    \/ FindThreadHolesTake
    \/ FindThreadHolesReturn
    \/ FindPortsBegin
    \/ FindPortsTake
    \/ FindPortsReturn

SpecCluster == InitCluster /\ [][NextCluster]_vars

\* the loops, pass by pass, return what the functions return as a whole
LoopsAgreeWithFunctions ==
    pc = "done" =>
        /\ entry = "cluster_holes" => result = ClusterHoles(Map(samples, HoleDict))
        /\ entry = "find_thread_holes_locally" =>
               result = UniqueThreadHoles(Map(samples, CandidateDict))
        /\ entry = "find_ports_on_right_face" => result = MergedPorts(Map(samples, PortDict))

(***************************************************************************)
(* Claims on the clustering loops.                                         *)
(***************************************************************************)
\* every ordering of a list
Orderings(s) ==
    {[i \in 1 .. Len(s) |-> s[q[i]]] :
        q \in {f \in [1 .. Len(s) -> 1 .. Len(s)] :
                  \A i, j \in 1 .. Len(s) : i # j => f[i] # f[j]}}

DistinctCounts(s) == \A i, j \in 1 .. Len(s) : i # j => s[i].n # s[j].n

Backwards(s) == [i \in 1 .. Len(s) |-> s[Len(s) + 1 - i]]

Centres(candidates) == {<<c.center_x, c.center_y>> : c \in Elements(candidates)}

C13_WitnessTie ==
    /\ pc = "done" /\ entry = "cluster_holes"
    /\ ~ DistinctCounts(samples)
    /\ \E p \in Orderings(samples) :
           Centres(ClusterHoles(Map(p, HoleDict))) # Centres(result)

FinalConfidence(c) == IF "confidence" \in DOMAIN c THEN c.confidence ELSE c.num_verts

NonIncreasing(candidates) ==
    \A i \in 1 .. Len(candidates) - 1 :
        FinalConfidence(candidates[i]) >= FinalConfidence(candidates[i + 1])

\* C14: the list of candidates that cluster_holes, find_ports_on_right_face
\* and find_holes return is in non-increasing order of the candidates' final
\* confidence.
C14_SortedByConfidence ==
    (pc = "done" /\ entry \in {"cluster_holes", "find_ports_on_right_face", "find_holes"}) =>
        NonIncreasing(result)

\* the lists of cluster_holes and find_holes, whose candidates keep the
\* confidence they were created with, are in non-increasing order
C14_SortedWhereNothingIsAdded ==
    (pc = "done" /\ entry \in {"cluster_holes", "find_holes"}) => NonIncreasing(result)

\* find_ports_on_right_face returned a list that is in order although a
\* vertex count was added to
C14_WitnessPortsSorted ==
    /\ pc = "done" /\ entry = "find_ports_on_right_face"
    /\ Len(result) = 2 /\ Len(samples) = 3
    /\ NonIncreasing(result)

(***************************************************************************)
(* The void sweeps: find_circular_voids_on_top of                          *)
(* sphere_sweep_detection.py, find_circular_voids_on_back_face of          *)
(* find_stacked_ports.py and find_all_ports_on_back_face of                *)
(* precise_barrel_scan.py.  Each counts, at every location of a grid on    *)
(* one face of the part, the vertices inside a disk and those in an        *)
(* annulus around the location.                                            *)
(***************************************************************************)
TopFaceDepth == 5000
BackFaceDepth == 2000
ScanFaceDepth == 1000
MaxCenterVerts == 10
MinPerimeterTop == 50
MinPerimeterBack == 40
MinPerimeterScan == 40
ScanRadius == 3000
ScanFirst == 2
ScanStop == 27
ScanStep == 2

\* int() of a length, in whole millimetres: the fraction is cut off
WholeMillimetres(v) == IF v >= 0 THEN v \div Millimetre ELSE -((-v) \div Millimetre)

\* the vertices of a list that pass a test, in their order
Keep(s, Test(_)) == SelectSeq(s, Test)

\* the numbers of vertices within half the radius of (cx, cy), and between
\* 0.8 and 1.5 times the radius from it; cx and cy are whole millimetres
\* the counts with everything nearer than 1.5 radii taken for the annulus
SweepCountsWholeDisk(points, cx, cy, radius) ==
    With(points, LAMBDA ps :
        LET d2(k) == (ps[k][1] - cx * Millimetre) * (ps[k][1] - cx * Millimetre)
                     + (ps[k][2] - cy * Millimetre) * (ps[k][2] - cy * Millimetre)
            inner == (5 * radius) \div 10
            high == (15 * radius) \div 10
        IN  [center |-> Cardinality({k \in 1 .. Len(ps) : d2(k) < inner * inner}),
             perimeter |-> Cardinality({k \in 1 .. Len(ps) : d2(k) < high * high})])

SweepCounts(points, cx, cy, radius) ==
    With(points, LAMBDA ps :
        LET d2(k) == (ps[k][1] - cx * Millimetre) * (ps[k][1] - cx * Millimetre)
                     + (ps[k][2] - cy * Millimetre) * (ps[k][2] - cy * Millimetre)
            inner == (5 * radius) \div 10
            low == (8 * radius) \div 10
            high == (15 * radius) \div 10
        IN  [center |-> Cardinality({k \in 1 .. Len(ps) : d2(k) < inner * inner}),
             perimeter |-> Cardinality({k \in 1 .. Len(ps) :
                                           low * low < d2(k) /\ d2(k) < high * high})])

\* the locations range(a, b) x range(c, d), the second coordinate running
\* fastest
Grid(a, b, c, d) ==
    LET nx == Max(0, b - a)
        ny == Max(0, d - c)
    IN  [i \in 1 .. nx * ny |-> <<a + ((i - 1) \div ny), c + ((i - 1) % ny)>>]

\* the locations strictly inside the bounding box of the points of a face,
\* one millimetre apart
FaceGrid(points) ==
    With(points, LAMBDA ps :
        Grid(WholeMillimetres(ListMin(Map(ps, X))) + 1, WholeMillimetres(ListMax(Map(ps, X))),
             WholeMillimetres(ListMin(Map(ps, Y))) + 1, WholeMillimetres(ListMax(Map(ps, Y)))))

\* the locations range(2, 27, 2) x range(2, 27, 2)
ScanGrid ==
    LET n == (ScanStop - ScanFirst + ScanStep - 1) \div ScanStep
    IN  [i \in 1 .. n * n |->
            <<ScanFirst + ScanStep * ((i - 1) \div n), ScanFirst + ScanStep * ((i - 1) % n)>>]

\* the counts at every location of a grid
Sweep(points, grid, radius) ==
    With(points, LAMBDA ps :
    With(grid, LAMBDA g :
        [i \in 1 .. Len(g) |->
            With(SweepCounts(ps, g[i][1], g[i][2], radius), LAMBDA c :
                [at |-> g[i], center |-> c.center, perimeter |-> c.perimeter])]))

\* the (x, y) of the vertices less than 5 mm below the highest one
TopFacePoints(verts) ==
    With(verts, LAMBDA vs :
    With(ListMax(Map(vs, Z)), LAMBDA z_max :
        Map(Keep(vs, LAMBDA v : v[3] > z_max - TopFaceDepth), LAMBDA v : <<v[1], v[2]>>)))

\* the (x, z) of the vertices less than depth before the one of greatest y
BackFacePoints(verts, depth) ==
    With(verts, LAMBDA vs :
    With(ListMax(Map(vs, Y)), LAMBDA y_max :
        Map(Keep(vs, LAMBDA v : v[2] > y_max - depth), LAMBDA v : <<v[1], v[3]>>)))

\* sphere_sweep_detection.py, lines 31-76
CircularVoidsOnTop(verts, radius) ==
    With(verts, LAMBDA vs :
        IF vs = <<>> THEN [exc |-> "ValueError", value |-> <<>>]
        ELSE
    With(TopFacePoints(vs), LAMBDA ps :
    With(Sweep(ps, FaceGrid(ps), radius), LAMBDA counted :
        [exc |-> "none",
         value |-> Map(Keep(counted, LAMBDA c :
                            c.center < MaxCenterVerts /\ c.perimeter > MinPerimeterTop),
                       LAMBDA c : [x |-> c.at[1], y |-> c.at[2],
                                   center_count |-> c.center,
                                   perimeter_count |-> c.perimeter,
                                   ratio |-> <<c.perimeter, Max(c.center, 1)>>])])))

\* find_stacked_ports.py, lines 30-75: the holes and y_max
CircularVoidsOnBackFace(verts, radius) ==
    With(verts, LAMBDA vs :
        IF vs = <<>> THEN [exc |-> "ValueError", value |-> <<>>]
        ELSE
    With(BackFacePoints(vs, BackFaceDepth), LAMBDA xz_coords :
    With(Sweep(xz_coords, FaceGrid(xz_coords), radius), LAMBDA counted :
        [exc |-> "none",
         value |-> <<Map(Keep(counted, LAMBDA c :
                              c.center < MaxCenterVerts /\ c.perimeter > MinPerimeterBack),
                         LAMBDA c : [x |-> c.at[1], z |-> c.at[2],
                                     center_count |-> c.center,
                                     perimeter_count |-> c.perimeter,
                                     ratio |-> <<c.perimeter, Max(c.center, 1)>>]),
                     ListMax(Map(vs, Y))>>])))

\* precise_barrel_scan.py, lines 29-62
AllPortsOnBackFace(verts) ==
    With(verts, LAMBDA vs :
        IF vs = <<>> THEN [exc |-> "ValueError", value |-> <<>>]
        ELSE
    With(Sweep(BackFacePoints(vs, ScanFaceDepth), ScanGrid, ScanRadius), LAMBDA counted :
        [exc |-> "none",
         value |-> Map(Keep(counted, LAMBDA c :
                            c.center < MaxCenterVerts /\ c.perimeter > MinPerimeterScan),
                       LAMBDA c : [x |-> c.at[1], z |-> c.at[2],
                                   perimeter |-> c.perimeter, center |-> c.center])]))

(***************************************************************************)
(* The point clouds given to the sweeps: RingCount vertices on a circle of *)
(* 3 mm around the point (6, 6) of a face, one every sixteenth of a turn,  *)
(* then CenterCount vertices at that point, and Buried vertices at the     *)
(* same place 6 mm behind the face.  The face is the top of the part (z =  *)
(* 10 mm) or its back (y = 10 mm).                                         *)
(***************************************************************************)
RingCounts == {40, 41, 50, 51}
CenterCounts == {0, 9, 10}
BuriedCounts == {0, 12}
FaceNames == {"top", "back"}
TestRadii == {3000, 4000}
VoidCentre == 6 * Millimetre
VoidRadius == 3 * Millimetre
FaceHeight == 10 * Millimetre
BuriedHeight == 4 * Millimetre

\* the point (u, v) at height w of a face
OnFace(face, u, v, w) == IF face = "top" THEN <<u, v, w>> ELSE <<u, w, v>>

VoidVertex(k, p) ==
    IF k <= p.ring
    THEN LET d == Directions[(k % 16) + 1]
         IN  OnFace(p.face, VoidCentre + (VoidRadius * d[1]) \div 1000,
                    VoidCentre + (VoidRadius * d[2]) \div 1000, FaceHeight)
    ELSE IF k <= p.ring + p.center
    THEN OnFace(p.face, VoidCentre, VoidCentre, FaceHeight)
    ELSE OnFace(p.face, VoidCentre, VoidCentre, BuriedHeight)

VoidCloud(p) == [k \in 1 .. p.ring + p.center + p.buried |-> VoidVertex(k, p)]

VoidParams == [ring : RingCounts, center : CenterCounts, buried : BuriedCounts, face : FaceNames]

VoidClouds == {<<>>} \cup {VoidCloud(p) : p \in VoidParams}

\* main of sphere_sweep_detection.py, line 96
FindCircularVoidsOnTop ==
    /\ pc = "entry"
    /\ entry' = "find_circular_voids_on_top"
    /\ \E radius \in TestRadii :
           /\ test_radius' = radius
           /\ LET r == CircularVoidsOnTop(vertices, radius)
              IN  /\ exc' = r.exc
                  /\ result' = r.value
                  /\ pc' = IF r.exc = "none" THEN "done" ELSE "raised"
    /\ UNCHANGED <<face_verts, cells_left, workers, holes_found, scanVars, notSweep>>

\* main of find_stacked_ports.py, line 95
FindCircularVoidsOnBackFace ==
    /\ pc = "entry"
    /\ entry' = "find_circular_voids_on_back_face"
    /\ \E radius \in TestRadii :
           /\ test_radius' = radius
           /\ LET r == CircularVoidsOnBackFace(vertices, radius)
              IN  /\ exc' = r.exc
                  /\ result' = r.value
                  /\ pc' = IF r.exc = "none" THEN "done" ELSE "raised"
    /\ UNCHANGED <<face_verts, cells_left, workers, holes_found, scanVars, notSweep>>

\* main of precise_barrel_scan.py, line 125
FindAllPortsOnBackFace ==
    /\ pc = "entry"
    /\ entry' = "find_all_ports_on_back_face"
    /\ test_radius' = ScanRadius
    /\ LET r == AllPortsOnBackFace(vertices)
       IN  /\ exc' = r.exc
           /\ result' = r.value
           /\ pc' = IF r.exc = "none" THEN "done" ELSE "raised"
    /\ UNCHANGED <<face_verts, cells_left, workers, holes_found, scanVars, notSweep>>

InitSweep ==
    /\ vertices \in VoidClouds
    /\ pc = "entry"
    /\ data = <<>> /\ variant = "none" /\ pos = 0 /\ num_triangles = 0 /\ idx = 0
    /\ facets = <<>> /\ exc = "none"
    /\ FmtIdle /\ TxtIdle /\ DetIdle

NextSweep ==
    \/ FindCircularVoidsOnTop
    \/ FindCircularVoidsOnBackFace
    \/ FindAllPortsOnBackFace

SpecSweep == InitSweep /\ [][NextSweep]_vars

(***************************************************************************)
(* Claims on the void sweeps.                                              *)
(***************************************************************************)
Sweeps ==
    {"find_circular_voids_on_top", "find_circular_voids_on_back_face",
     "find_all_ports_on_back_face"}

\* the counts at every location of the grid of the sweep that ran
SweptLocations ==
    IF entry = "find_circular_voids_on_top"
    THEN With(TopFacePoints(vertices), LAMBDA ps : Sweep(ps, FaceGrid(ps), test_radius))
    ELSE IF entry = "find_circular_voids_on_back_face"
    THEN With(BackFacePoints(vertices, BackFaceDepth), LAMBDA ps :
             Sweep(ps, FaceGrid(ps), test_radius))
    ELSE Sweep(BackFacePoints(vertices, ScanFaceDepth), ScanGrid, test_radius)

\* the locations the sweep reported
ReportedLocations ==
    IF entry = "find_circular_voids_on_top" THEN {<<h.x, h.y>> : h \in Elements(result)}
    ELSE IF entry = "find_circular_voids_on_back_face"
    THEN {<<h.x, h.z>> : h \in Elements(result[1])}
    ELSE {<<h.x, h.z>> : h \in Elements(result)}

\* C15: in every void sweep a location of the grid is reported if and only
\* if fewer than 10 vertices lie in its inner disk and more than 40 in its
\* annulus.
C15_HitIffBelow10AndAbove40 ==
    (pc = "done" /\ entry \in Sweeps) =>
        With(ReportedLocations, LAMBDA reported :
            \A c \in Elements(SweptLocations) :
                c.at \in reported <=> (c.center < 10 /\ c.perimeter > 40))

\* each sweep reports the locations that pass its own thresholds: more than
\* 50 vertices in the annulus on the top face, more than 40 on the back face
C15_HitIffOwnThreshold ==
    (pc = "done" /\ entry \in Sweeps) =>
        With(ReportedLocations, LAMBDA reported :
        With(IF entry = "find_circular_voids_on_top" THEN 50 ELSE 40, LAMBDA least :
            \A c \in Elements(SweptLocations) :
                c.at \in reported <=> (c.center < 10 /\ c.perimeter > least)))

\* the sweep of the top face reported a location
C15_WitnessTopHit ==
    /\ pc = "done" /\ entry = "find_circular_voids_on_top"
    /\ result # <<>>

\* a sweep of the back face reported a location with fewer than 51
\* vertices in its annulus
C15_WitnessBackHit ==
    /\ pc = "done" /\ entry = "find_circular_voids_on_back_face"
    /\ \E h \in Elements(result[1]) : h.perimeter_count <= 50

(***************************************************************************)
(* The serial command runner, script_runner.py.  A line of text is the     *)
(* sequence of its characters; what the port gives back is a line of       *)
(* bytes, of which one, 0xFF, is no text.                                  *)
(***************************************************************************)
MaxScriptLines == 3
MaxNoise == 1

\* str.strip(): the text without the whitespace at both ends
Strip(text) ==
    With(text, LAMBDA t :
        LET inked == {k \in 1 .. Len(t) : t[k] \notin Whitespace}
        IN  IF inked = {} THEN <<>> ELSE SubSeq(t, SetMin(inked), SetMax(inked)))

\* str.startswith
StartsWith(text, prefix) ==
    /\ Len(text) >= Len(prefix)
    /\ SubSeq(text, 1, Len(prefix)) = prefix

InvalidByte == "0xFF"

\* bytes.decode(): UnicodeDecodeError on a byte that is no text
Decodable(bytes) == \A k \in 1 .. Len(bytes) : bytes[k] # InvalidByte

FIN == <<"F", "I", "N">>
ERR == <<"E", "R", "R">>

\* a read that timed out ends the wait as well
FinishedOnTimeout(response) == response = FIN \/ response = ERR \/ response = <<>>

FinishedByAnyLine(response) == TRUE

\* script_runner.py, lines 34-39: the responses that end the wait
Finished(response) == response = FIN \/ response = ERR

\* only the blank lines are passed over
SkippedOnlyBlank(line) == line = <<>>

\* script_runner.py, line 57: the lines of the file that are passed over
Skipped(line) == line = <<>> \/ StartsWith(line, <<"%", "%">>)

\* script_runner.py, line 60
Ends(line) == StartsWith(line, <<"E", "N", "D">>)

\* the lines a program file is made of
ScriptLines ==
    {<<"G", "1", "\n">>, <<" ", "M", "2", " ", "\n">>, <<"%", "%", "c", "\n">>, <<"\n">>,
     <<"E", "N", "D", "\n">>}

Scripts == UNION {[1 .. n -> ScriptLines] : n \in 0 .. MaxScriptLines}

\* what readline gives: a line of the device, or nothing when the second of
\* the timeout has passed
DeviceLines ==
    {<<"F", "I", "N", "\n">>, <<" ", "F", "I", "N", "\r", "\n">>, <<"E", "R", "R", "\r", "\n">>,
     <<"o", "k", "\n">>, <<"F", "I", "N", "E", "\n">>, <<>>, <<InvalidByte, "\n">>}

\* script_runner.py, lines 50-52
RunProgram ==
    /\ pc = "entry"
    /\ line_num' = 0
    /\ pc' = "for"
    /\ UNCHANGED <<exc, script, written, responses, notRun>>

\* script_runner.py, lines 53-58: a blank line or a comment is passed over
SkipLine ==
    /\ pc = "for"
    /\ line_num < Len(script)
    /\ Skipped(Strip(script[line_num + 1]))
    /\ line_num' = line_num + 1
    /\ UNCHANGED <<pc, exc, script, written, responses, notRun>>

\* script_runner.py, lines 53-61: a line that starts with END ends the run
StopAtEnd ==
    /\ pc = "for"
    /\ line_num < Len(script)
    /\ LET line == Strip(script[line_num + 1])
       IN  ~ Skipped(line) /\ Ends(line)
    /\ line_num' = line_num + 1
    /\ pc' = "done"
    /\ UNCHANGED <<exc, script, written, responses, notRun>>

\* script_runner.py, lines 53-64 and 30: the line is written to the port
SendCommand ==
    /\ pc = "for"
    /\ line_num < Len(script)
    /\ LET line == Strip(script[line_num + 1])
       IN  /\ ~ Skipped(line) /\ ~ Ends(line)
           /\ written' = Append(written, line \o <<"\n">>)
    /\ line_num' = line_num + 1
    /\ responses' = <<>>
    /\ pc' = "wait"
    /\ UNCHANGED <<exc, script, notRun>>

\* script_runner.py, lines 32-39 and 65: a line is read from the port; the
\* device sends at most MaxNoise lines before it answers FIN or ERR
ReadResponse ==
    /\ pc = "wait"
    /\ \E bytes \in DeviceLines :
           IF ~ Decodable(bytes)
           THEN /\ exc' = "UnicodeDecodeError"
                /\ pc' = "raised"
                /\ UNCHANGED responses
           ELSE LET response == Strip(bytes)
                IN  /\ Finished(response) \/ Len(responses) < MaxNoise
                    /\ responses' = Append(responses, response)
                    /\ pc' = IF Finished(response) THEN "for" ELSE "wait"
                    /\ UNCHANGED exc
    /\ UNCHANGED <<script, line_num, written, notRun>>

\* script_runner.py, line 53: the file has no more lines
EndOfFile ==
    /\ pc = "for"
    /\ line_num = Len(script)
    /\ pc' = "done"
    /\ UNCHANGED <<exc, runVars, notRun>>

InitRun ==
    /\ script \in Scripts
    /\ line_num = 0 /\ written = <<>> /\ responses = <<>>
    /\ pc = "entry"
    /\ data = <<>> /\ BinIdle /\ FmtIdle /\ TxtIdle
    /\ entry = "none" /\ result = <<>>
    /\ axis = <<>> /\ radius_range = <<>> /\ range_idx = 0 /\ detected_helices = <<>>
    /\ samples = <<>> /\ merged_into = <<>> /\ input_holes = <<>> /\ origin = <<>>
    /\ test_radius = 0
    /\ face_verts = <<>> /\ cells_left = <<>> /\ workers = <<>> /\ holes_found = <<>>
    /\ ScanIdle

NextRun ==
    \/ RunProgram
    \/ SkipLine
    \/ StopAtEnd
    \/ SendCommand
    \/ ReadResponse
    \/ EndOfFile

SpecRun == InitRun /\ [][NextRun]_vars

\* the steps of run_program itself, which follow each other without a wait
ProgramStep == RunProgram \/ SkipLine \/ StopAtEnd \/ SendCommand \/ EndOfFile

\* the device answers: the read gives FIN or ERR
Answer == ReadResponse /\ pc' = "for"

\* the runner with a device that answers every command in the end; the
\* reads that time out before the answer are the steps that change nothing
SpecRunFair == SpecRun /\ WF_vars(ProgramStep) /\ WF_vars(Answer)

(***************************************************************************)
(* Claims on the command runner.                                           *)
(***************************************************************************)
\* the first of the lines 1 .. n of the file that ends the run, n + 1 when
\* none does
FirstEnd(n) ==
    SetMin({k \in 1 .. n : ~ Skipped(Strip(script[k])) /\ Ends(Strip(script[k]))} \cup {n + 1})

\* the commands among the lines 1 .. n of the file, as they are to be sent
CommandsUpTo(n) ==
    With(SortedSet({k \in 1 .. n : k < FirstEnd(n) /\ ~ Skipped(Strip(script[k]))}), LAMBDA at :
        [i \in 1 .. Len(at) |-> Strip(script[at[i]]) \o <<"\n">>])

\* C16: the runner writes each command of the file to the port once, in the
\* order of the file; it writes a command only when the last line read
\* for the command before it was FIN or ERR; and a line read that is
\* neither leaves the runner waiting, with nothing written.
C16_OneCommandAtATime ==
    /\ [](written = CommandsUpTo(line_num))
    /\ [][written' # written =>
             /\ Len(written') = Len(written) + 1
             /\ \/ written = <<>>
                \/ responses # <<>> /\ responses[Len(responses)] \in {FIN, ERR}]_vars
    /\ [][(pc = "wait" /\ responses' # responses
           /\ responses'[Len(responses')] \notin {FIN, ERR}) =>
              (pc' = "wait" /\ written' = written)]_vars

\* the second command was written, and a line that is neither FIN nor ERR
\* was read for it
C16_Witness ==
    /\ pc = "wait"
    /\ Len(written) = 2
    /\ responses # <<>> /\ responses[Len(responses)] \notin {FIN, ERR}

(***************************************************************************)
(* Claims on find_cylindrical_features.                                    *)
(***************************************************************************)
\* C17: every sample that find_cylindrical_features returns has at least 8
\* points, a mean radius above 1 mm and a radius variance below 2 mm^2; a
\* height level with fewer than 8 vertices gives no sample, and the call
\* raises nothing.
C17_SamplesPassThresholds ==
    entry = "find_cylindrical_features" =>
        /\ pc = "done" /\ exc = "none"
        /\ \A s \in Elements(result) :
               s.num_points >= 8 /\ s.radius > 1 * Millimetre
               /\ s.variance < 2 * Millimetre * Millimetre
        /\ With(Flatten(facets), LAMBDA verts :
               \A z \in Elements(Map(verts, RoundedHeight)) :
                   Len(LevelVerts(verts, z)) < 8 => \A s \in Elements(result) : s.z # z)

\* a mesh with a level of 8 vertices, which gave a sample, and a level of
\* fewer, which gave none
C17_Witness ==
    /\ pc = "done" /\ entry = "find_cylindrical_features"
    /\ result # <<>>
    /\ With(Flatten(facets), LAMBDA verts :
           \E z \in Elements(Map(verts, RoundedHeight)) :
               /\ Len(LevelVerts(verts, z)) < 8
               /\ \A s \in Elements(result) : s.z # z)

\* a level of 8 vertices on a circle of less than 1 mm gave no sample
C17_WitnessSmallCircle ==
    /\ pc = "done" /\ entry = "find_cylindrical_features"
    /\ result = <<>>
    /\ With(Flatten(facets), LAMBDA verts :
           \E z \in Elements(Map(verts, RoundedHeight)) : Len(LevelVerts(verts, z)) >= 8)

(***************************************************************************)
(* Claims on how the clustering loops merge.                               *)
(***************************************************************************)
Merging == {"cluster_holes", "find_ports_on_right_face"}

\* the samples in the order the loop that runs takes them, and its merge
\* distance
TakenOrder == IF entry = "cluster_holes" THEN ClusterOrder ELSE PortOrder
MergeDistance == IF entry = "cluster_holes" THEN ClusterDistance ELSE PortMergeDistance

\* the square of the distance between a sample and a candidate
Gap2(h, c) == IF entry = "cluster_holes" THEN CenterDist2(h, c) ELSE PortDist2(h, c)

\* the candidates that exist when the i-th sample is taken
CandidatesBefore(i) == 1 .. SetMax({merged_into[j] : j \in 1 .. i - 1} \cup {0})

\* the candidates within the merge distance of the i-th sample
Within(i) ==
    {k \in CandidatesBefore(i) :
        Gap2(TakenOrder[i], result[k]) < MergeDistance * MergeDistance}

\* C18: the samples are taken in descending order of confidence; a sample
\* within the merge distance of several candidates goes into the nearest
\* of them, the earliest created of those equally near; a sample starts a
\* new candidate only when no candidate is within the merge distance.
C18_MergedIntoNearest ==
    (entry \in Merging /\ pc \in {"loop", "done"}) =>
        /\ NonIncreasing(TakenOrder)
        /\ \A i \in 1 .. Len(merged_into) :
               IF Within(i) = {}
               THEN merged_into[i] = SetMax(CandidatesBefore(i) \cup {0}) + 1
               ELSE /\ merged_into[i] \in Within(i)
                    /\ \A k \in Within(i) :
                           \/ Gap2(TakenOrder[i], result[merged_into[i]])
                                  < Gap2(TakenOrder[i], result[k])
                           \/ /\ Gap2(TakenOrder[i], result[merged_into[i]])
                                     = Gap2(TakenOrder[i], result[k])
                              /\ merged_into[i] <= k

\* the loops put a sample into the candidate created first among those
\* within the merge distance
C18_MergedIntoFirstWithin ==
    (entry \in Merging /\ pc \in {"loop", "done"}) =>
        /\ NonIncreasing(TakenOrder)
        /\ \A i \in 1 .. Len(merged_into) :
               IF Within(i) = {}
               THEN merged_into[i] = SetMax(CandidatesBefore(i) \cup {0}) + 1
               ELSE merged_into[i] = SetMin(Within(i))

\* a sample was within the merge distance of two candidates
C18_WitnessTwoWithin ==
    /\ entry \in Merging /\ pc = "done"
    /\ \E i \in 1 .. Len(merged_into) : Cardinality(Within(i)) = 2

\* the height range of a hole: along z for the holes of cluster_holes and
\* find_holes, along x for the ports of the right face
Lower(h) == IF "z_min" \in DOMAIN h THEN h.z_min ELSE h.x_min
Upper(h) == IF "z_max" \in DOMAIN h THEN h.z_max ELSE h.x_max

\* the samples that went into candidate k, by their place in the order taken
MembersOf(k) == {i \in 1 .. Len(merged_into) : merged_into[i] = k}

\* C19: after clustering, the height range of every candidate is the union
\* of the ranges of the samples merged into it: the least lower bound, the
\* greatest upper bound, and their difference as depth.
C19_RangeIsUnion ==
    (pc = "done" /\ entry \in {"cluster_holes", "find_ports_on_right_face", "find_holes"}) =>
        \A k \in 1 .. Len(result) :
            /\ result[k].depth = Upper(result[k]) - Lower(result[k])
            /\ entry \in Merging =>
                   /\ Lower(result[k]) = SetMin({Lower(TakenOrder[i]) : i \in MembersOf(k)})
                   /\ Upper(result[k]) = SetMax({Upper(TakenOrder[i]) : i \in MembersOf(k)})

\* every candidate has the range of the sample it was created from
C19_RangeOfFirstSample ==
    (pc = "done" /\ entry \in Merging) =>
        \A k \in 1 .. Len(result) :
            /\ result[k].depth = Upper(result[k]) - Lower(result[k])
            /\ Lower(result[k]) = Lower(TakenOrder[SetMin(MembersOf(k))])
            /\ Upper(result[k]) = Upper(TakenOrder[SetMin(MembersOf(k))])

\* a candidate into which a sample of a longer range was merged
C19_WitnessLongerMerged ==
    /\ pc = "done" /\ entry \in Merging
    /\ \E k \in 1 .. Len(result) : \E i \in MembersOf(k) :
           Lower(TakenOrder[i]) < Lower(result[k])

\* the center of a hole: (center_x, center_y), or (y, z) on the right face
CentreOf(h) == IF "center_x" \in DOMAIN h THEN <<h.center_x, h.center_y>> ELSE <<h.y, h.z>>

\* the confidence a sample came with
SampleConfidence(i) == FinalConfidence(TakenOrder[i])

\* the samples of highest confidence among those that went into candidate k
BestOf(k) ==
    {i \in MembersOf(k) : \A j \in MembersOf(k) : SampleConfidence(i) >= SampleConfidence(j)}

\* C20: after clustering, every candidate has the center, the radius and
\* the diameter of the sample of highest confidence among those merged into
\* it; a sample of lower confidence changes none of them.
C20_AttributesOfBestSample ==
    (pc = "done" /\ entry \in {"cluster_holes", "find_ports_on_right_face", "find_holes"}) =>
        (entry \in Merging =>
            \A k \in 1 .. Len(result) : \E i \in BestOf(k) :
                /\ CentreOf(result[k]) = CentreOf(TakenOrder[i])
                /\ result[k].radius = TakenOrder[i].radius
                /\ result[k].diameter = TakenOrder[i].diameter)

\* the candidates of cluster_holes have the center, the radius and the
\* diameter of their best sample, and those of the right face its center
C20_BestSampleWhereNothingIsReplaced ==
    (pc = "done" /\ entry \in Merging) =>
        \A k \in 1 .. Len(result) : \E i \in BestOf(k) :
            /\ CentreOf(result[k]) = CentreOf(TakenOrder[i])
            /\ entry = "cluster_holes" =>
                   /\ result[k].radius = TakenOrder[i].radius
                   /\ result[k].diameter = TakenOrder[i].diameter

\* a sample of lower confidence and greater radius was merged into a
\* candidate of cluster_holes
C20_WitnessWiderMerged ==
    /\ pc = "done" /\ entry = "cluster_holes"
    /\ \E k \in 1 .. Len(result) : \E i \in MembersOf(k) :
           /\ SampleConfidence(i) < result[k].confidence
           /\ TakenOrder[i].radius > result[k].radius

(***************************************************************************)
(* The slopes of the helix detector, pair by pair.                         *)
(***************************************************************************)
\* the raw difference of the mean angles of entry i and the next
RawDifference(p, i) == p[i + 1].avg_angle - p[i].avg_angle

\* a slope is the quotient of an angle difference d and the height step
SlopeOf(p, i, d) == RoundHalfEven(d * Millimetre, p[i + 1].z - p[i].z)

\* C21: for every pair of consecutive height buckets with data, the angle
\* difference used for the slope differs from the raw difference of the two
\* mean angles by a whole number of turns and is at most pi in magnitude, and
\* there is exactly one slope for each pair: k buckets give k - 1 slopes
C21_OneUnwrappedSlopePerPair ==
    Detected =>
        With(BucketsWithData, LAMBDA p :
            Len(p) >= MinProgression =>
                With(AngleZDerivatives(p), LAMBDA slopes :
                    /\ Len(slopes) = Len(p) - 1
                    /\ \A i \in 1 .. Len(p) - 1 :
                          \E turns \in {-1, 0, 1} :
                             /\ Abs(RawDifference(p, i) + turns * TwoPi) <= Pi
                             /\ slopes[i] = SlopeOf(p, i, RawDifference(p, i) + turns * TwoPi)))

\* a run with 5 buckets in which a raw difference exceeds pi and was unwrapped
C21_Witness ==
    /\ Detected
    /\ With(BucketsWithData, LAMBDA p :
          /\ Len(p) >= MinProgression
          /\ Len(AngleZDerivatives(p)) = Len(p) - 1
          /\ \E i \in 1 .. Len(p) - 1 :
                /\ Abs(RawDifference(p, i)) > Pi
                /\ AngleZDerivatives(p)[i] # SlopeOf(p, i, RawDifference(p, i)))

(***************************************************************************)
(* The height levels of find_cylindrical_features and the vertices each    *)
(* of them counts.                                                         *)
(***************************************************************************)
\* the levels examined: the distinct rounded heights, ascending
ZCoords(verts) == SortedSet(Elements(Map(verts, RoundedHeight)))

\* the point counts of the levels examined, and of the samples returned
LevelCounts(verts) == Map(ZCoords(verts), LAMBDA z : Len(LevelVerts(verts, z)))
SampleCounts == Map(result, LAMBDA s : s.num_points)

\* C22: the height levels partition the vertices: the point counts of the
\* levels examined sum to the number of vertices, and the point counts of
\* the samples returned sum to at most the number of vertices
C22_LevelsPartitionVertices ==
    entry = "find_cylindrical_features" =>
        With(Flatten(facets), LAMBDA verts :
            /\ Sum(LevelCounts(verts)) = Len(verts)
            /\ Sum(SampleCounts) <= Len(verts))

\* what the code keeps: every vertex is counted at its own rounded height,
\* and at every other level nearer than the tolerance as well
C22_LevelsCoverVertices ==
    entry = "find_cylindrical_features" =>
        With(Flatten(facets), LAMBDA verts :
            /\ \A k \in 1 .. Len(verts) :
                  Len(SelectSeq(LevelVerts(verts, RoundedHeight(verts[k])),
                                LAMBDA v : v = verts[k])) >= 1
            /\ Sum(LevelCounts(verts)) >= Len(verts)
            /\ \A s \in Elements(result) : s.num_points <= Len(verts))

\* levels 0.3 mm apart: the samples returned count more points than the
\* mesh has vertices
C22_WitnessCountedTwice ==
    /\ entry = "find_cylindrical_features" /\ pc = "done"
    /\ facets \in LayerMeshes
    /\ Sum(SampleCounts) > Len(Flatten(facets))

(***************************************************************************)
(* What the clustering steps leave of the list they were given.            *)
(***************************************************************************)
\* the dicts of the list as they were when the loop began
HolesBefore ==
    IF entry = "cluster_holes" THEN Map(samples, HoleDict)
    ELSE IF entry = "find_ports_on_right_face" THEN Map(samples, PortDict)
    ELSE Map(samples, CandidateDict)

\* C23: cluster_holes and the merge loop of find_ports_on_right_face leave
\* the samples they are given as they were, field by field, and every
\* candidate they return is a new record, not one of the samples
C23_InputSamplesUnchanged ==
    entry \in Merging =>
        /\ input_holes = HolesBefore
        /\ \A k \in 1 .. Len(origin) : origin[k] = 0

\* what the code keeps: cluster_holes copies the holes it keeps and leaves
\* its list alone, and the ports returned are the dicts of the list
C23_CopiesInClusterHolesOnly ==
    /\ entry = "cluster_holes" =>
          /\ input_holes = HolesBefore
          /\ \A k \in 1 .. Len(origin) : origin[k] = 0
    /\ entry = "find_ports_on_right_face" =>
          /\ Len(origin) = Len(result)
          /\ \A k \in 1 .. Len(origin) :
                origin[k] \in 1 .. Len(input_holes) /\ input_holes[origin[k]] = result[k]
          /\ \A i \in 1 .. Len(input_holes) :
                (\A k \in 1 .. Len(origin) : origin[k] # i) => input_holes[i] = HolesBefore[i]

\* a port of the list that a merge has made wider than it was
C23_WitnessInputWidened ==
    /\ entry = "find_ports_on_right_face" /\ pc = "done"
    /\ \E i \in 1 .. Len(input_holes) :
          /\ input_holes[i].diameter > HolesBefore[i].diameter
          /\ input_holes[i].num_verts > HolesBefore[i].num_verts

(***************************************************************************)
(* The sweeps of find_circular_voids_on_top and                            *)
(* find_circular_voids_on_back_face with their grid cells handed to        *)
(* workers: the cells are handed out in grid order or in the reverse       *)
(* order, a worker takes a cell and resets its two counters, then counts   *)
(* the face vertices and appends the hit.  One worker that takes the cells *)
(* in grid order is the loop of the code.                                  *)
(***************************************************************************)
Workers == {1, 2}
HandOuts == {"grid order", "reverse"}
WorkerSweeps == {"find_circular_voids_on_top", "find_circular_voids_on_back_face"}

\* test_radius=3.0, the default of both functions
DefaultTestRadius == 3 * Millimetre

\* the (u, v) of the vertices of the face the sweep looks at
FacePoints(name, verts) ==
    IF name = "find_circular_voids_on_top" THEN TopFacePoints(verts)
    ELSE BackFacePoints(verts, BackFaceDepth)

\* the counters as they are carried over from the cell before
CountsCarriedOver(counts) == counts

\* sphere_sweep_detection.py, lines 53-56: both counters start at 0 in
\* every cell
CountsAtCellStart(counts) == [center |-> 0, perimeter |-> 0]

\* lines 58-64: the loop over the face vertices adds to the counters
CountedCell(counts, points, cell, radius) ==
    With(SweepCounts(points, cell[1], cell[2], radius), LAMBDA c :
        [center |-> counts.center + c.center,
         perimeter |-> counts.perimeter + c.perimeter])

\* lines 67-74 and find_stacked_ports.py, lines 66-73: the hit, if it is one
HitsOfCell(name, cell, c) ==
    IF name = "find_circular_voids_on_top"
    THEN IF c.center < MaxCenterVerts /\ c.perimeter > MinPerimeterTop
         THEN <<[x |-> cell[1], y |-> cell[2], center_count |-> c.center,
                 perimeter_count |-> c.perimeter, ratio |-> <<c.perimeter, Max(c.center, 1)>>]>>
         ELSE <<>>
    ELSE IF c.center < MaxCenterVerts /\ c.perimeter > MinPerimeterBack
         THEN <<[x |-> cell[1], z |-> cell[2], center_count |-> c.center,
                 perimeter_count |-> c.perimeter, ratio |-> <<c.perimeter, Max(c.center, 1)>>]>>
         ELSE <<>>

Reversed(s) == [i \in 1 .. Len(s) |-> s[Len(s) + 1 - i]]

\* lines 31-53: the face and its grid; max() of no vertex raises
WorkersBegin ==
    /\ pc = "entry"
    /\ \E name \in WorkerSweeps, radius \in {DefaultTestRadius}, order \in HandOuts :
          /\ entry' = name
          /\ test_radius' = radius
          /\ IF vertices = <<>>
             THEN /\ exc' = "ValueError" /\ pc' = "raised"
                  /\ UNCHANGED <<face_verts, cells_left, workers>>
             ELSE /\ exc' = "none" /\ pc' = "sweep"
                  /\ face_verts' = FacePoints(name, vertices)
                  /\ cells_left' =
                        With(FaceGrid(FacePoints(name, vertices)), LAMBDA g :
                            IF order = "reverse" THEN Reversed(g) ELSE g)
                  /\ workers' = [w \in Workers |->
                                    [busy |-> FALSE, cell |-> <<0, 0>>,
                                     counts |-> [center |-> 0, perimeter |-> 0]]]
    /\ holes_found' = <<>>
    /\ UNCHANGED <<result, scanVars, notSweep>>

\* lines 50-56: a worker takes the next cell and resets its counters
WorkerTakesCell ==
    /\ pc = "sweep" /\ cells_left # <<>>
    /\ \E w \in Workers :
          /\ ~workers[w].busy
          /\ workers' = [workers EXCEPT ![w] =
                            [busy |-> TRUE, cell |-> Head(cells_left),
                             counts |-> CountsAtCellStart(workers[w].counts)]]
    /\ cells_left' = Tail(cells_left)
    /\ UNCHANGED <<pc, exc, entry, result, test_radius, face_verts, holes_found, scanVars, notSweep>>

\* lines 58-74: the worker counts the face vertices and appends the hit
WorkerFinishesCell ==
    /\ pc = "sweep"
    /\ \E w \in Workers :
          /\ workers[w].busy
          /\ LET c == CountedCell(workers[w].counts, face_verts, workers[w].cell, test_radius)
             IN  /\ workers' = [workers EXCEPT ![w] = [@ EXCEPT !.busy = FALSE, !.counts = c]]
                 /\ holes_found' = holes_found \o HitsOfCell(entry, workers[w].cell, c)
    /\ UNCHANGED <<pc, exc, entry, result, test_radius, face_verts, cells_left, scanVars,
                   notSweep>>

\* line 76 and find_stacked_ports.py, line 75
WorkersReturn ==
    /\ pc = "sweep" /\ cells_left = <<>>
    /\ \A w \in Workers : ~workers[w].busy
    /\ result' = IF entry = "find_circular_voids_on_top" THEN holes_found
                 ELSE <<holes_found, ListMax(Map(vertices, Y))>>
    /\ pc' = "done"
    /\ UNCHANGED <<exc, entry, test_radius, face_verts, cells_left, workers, holes_found,
                   scanVars, notSweep>>

\* the clouds swept by workers: a ring of 56 vertices, with the middle
\* empty or filled
WorkerRingCounts == {56}
WorkerCenterCounts == {0, 10}
WorkerClouds ==
    {<<>>} \cup {VoidCloud([ring |-> n, center |-> c, buried |-> 0, face |-> f]) :
                    n \in WorkerRingCounts, c \in WorkerCenterCounts, f \in FaceNames}

InitWorkers ==
    /\ vertices \in WorkerClouds
    /\ pc = "entry"
    /\ data = <<>> /\ variant = "none" /\ pos = 0 /\ num_triangles = 0 /\ idx = 0
    /\ facets = <<>> /\ exc = "none"
    /\ FmtIdle /\ TxtIdle /\ DetIdle

NextWorkers ==
    \/ WorkersBegin
    \/ WorkerTakesCell
    \/ WorkerFinishesCell
    \/ WorkersReturn

SpecWorkers == InitWorkers /\ [][NextWorkers]_vars

\* the hits of the loop of the code, as the function returns them
HitsOfFunction ==
    IF entry = "find_circular_voids_on_top"
    THEN CircularVoidsOnTop(vertices, test_radius).value
    ELSE CircularVoidsOnBackFace(vertices, test_radius).value[1]

HitsOfWorkers == IF entry = "find_circular_voids_on_top" THEN result ELSE result[1]

\* whether a cell is a hit, from the vertex list, the cell and the test
\* radius alone
CellIsHit(name, verts, cell, radius) ==
    With(SweepCounts(FacePoints(name, verts), cell[1], cell[2], radius), LAMBDA c :
        /\ c.center < 10
        /\ c.perimeter > (IF name = "find_circular_voids_on_top" THEN 50 ELSE 40))

\* the cell a worker finishes in this step is appended if and only if it
\* is a hit by CellIsHit
DecidedByCellAlone ==
    \A w \in Workers :
        (pc = "sweep" /\ workers[w].busy /\ ~workers'[w].busy) =>
            /\ Len(holes_found') = Len(holes_found)
                    + (IF CellIsHit(entry, vertices, workers[w].cell, test_radius) THEN 1 ELSE 0)
            /\ \A k \in Len(holes_found) + 1 .. Len(holes_found') :
                   <<holes_found'[k].x,
                     IF entry = "find_circular_voids_on_top"
                     THEN holes_found'[k].y ELSE holes_found'[k].z>> = workers[w].cell

\* C24: the hit decision of a cell depends on the vertex list, the cell and
\* the test radius only: whatever the order in which the cells are taken
\* and however the workers interleave, the set of hits is that of the loop
\* of the code, and no step of the sweep changes the vertex list
C24_SameHitsInAnyOrder ==
    /\ [](pc = "done" => Elements(HitsOfWorkers) = Elements(HitsOfFunction))
    /\ [][DecidedByCellAlone]_vars
    /\ [][vertices' = vertices]_vars

\* two workers finished their cells against the order of the grid: the
\* hits were appended in another order than the loop of the code appends
\* them, and they are the same hits
C24_Witness ==
    /\ pc = "done"
    /\ Len(HitsOfWorkers) >= 2
    /\ HitsOfWorkers # HitsOfFunction
    /\ Elements(HitsOfWorkers) = Elements(HitsOfFunction)

(***************************************************************************)
(* The two counts of a grid cell, vertex by vertex.                        *)
(***************************************************************************)
\* the face vertices of the sweep that ran
SweptFace ==
    IF entry = "find_circular_voids_on_top" THEN TopFacePoints(vertices)
    ELSE IF entry = "find_circular_voids_on_back_face"
    THEN BackFacePoints(vertices, BackFaceDepth)
    ELSE BackFacePoints(vertices, ScanFaceDepth)

\* the square of the in-plane distance of a face vertex from a cell centre
InPlane2(p, cell) ==
    (p[1] - cell[1] * Millimetre) * (p[1] - cell[1] * Millimetre)
    + (p[2] - cell[2] * Millimetre) * (p[2] - cell[2] * Millimetre)

\* d < 0.5 r, and 0.8 r < d < 1.5 r, for a test radius of whole hundredths
\* of a millimetre
InInnerDisk(p, cell, r) == InPlane2(p, cell) < (r \div 2) * (r \div 2)
InAnnulus(p, cell, r) ==
    /\ ((4 * r) \div 5) * ((4 * r) \div 5) < InPlane2(p, cell)
    /\ InPlane2(p, cell) < ((3 * r) \div 2) * ((3 * r) \div 2)

\* C25: in every void sweep, for every grid cell, a face vertex is counted
\* in the inner disk iff its in-plane distance is below half the test
\* radius and in the annulus iff it is between 0.8 and 1.5 test radii,
\* never in both, so that the two counts never sum to more than the number
\* of face vertices
C25_InnerAndAnnulusDisjoint ==
    (pc = "done" /\ entry \in Sweeps) =>
        With(SweptFace, LAMBDA ps :
            \A c \in Elements(SweptLocations) :
                /\ c.center = Cardinality({k \in 1 .. Len(ps) :
                                              InInnerDisk(ps[k], c.at, test_radius)})
                /\ c.perimeter = Cardinality({k \in 1 .. Len(ps) :
                                                 InAnnulus(ps[k], c.at, test_radius)})
                /\ \A k \in 1 .. Len(ps) :
                      ~(InInnerDisk(ps[k], c.at, test_radius)
                        /\ InAnnulus(ps[k], c.at, test_radius))
                /\ c.center + c.perimeter <= Len(ps))

\* a cell with vertices in its inner disk, vertices in its annulus and
\* vertices in neither
C25_Witness ==
    /\ pc = "done" /\ entry \in Sweeps
    /\ \E c \in Elements(SweptLocations) :
          /\ c.center > 0 /\ c.perimeter > 0
          /\ c.center + c.perimeter < Len(SweptFace)

(***************************************************************************)
(* What the duplicate-merging steps return: candidates that lie apart, and *)
(* that cover the samples.                                                 *)
(***************************************************************************)
\* no two candidates of a list are nearer than limit, by the distance D2
Apart(candidates, limit, D2(_, _)) ==
    \A i, j \in 1 .. Len(candidates) :
        i # j => D2(candidates[i], candidates[j]) >= limit * limit

Covered(given, candidates, limit) ==
    \A h \in Elements(given) :
        \E c \in Elements(candidates) :
            c = h \/ CenterDist2(h, c) < limit * limit

EndLine == FirstEnd(Len(script))

\* the lines before it that are neither blank nor comments, in file order
EligibleLines ==
    SortedSet({k \in 1 .. Len(script) :
                  /\ k < EndLine
                  /\ Strip(script[k]) # <<>>
                  /\ ~ StartsWith(Strip(script[k]), <<"%", "%">>)})

\* what is sent for a line: the stripped line and a newline
Sent(k) == Strip(script[k]) \o <<"\n">>

LastResponse == IF responses = <<>> THEN <<>> ELSE responses[Len(responses)]

\* C28: run_program sends the eligible lines of the file in file order,
\* each once and with a trailing newline: what has been written is always
\* the first of them, so that no blank line, no comment and no line at or
\* after the first END line is ever sent, and when the run ends all of
\* them have been sent; a command answered with ERR is followed by the
\* next command like one answered with FIN
C28_EligibleLinesInFileOrder ==
    /\ [](/\ Len(written) <= Len(EligibleLines)
          /\ \A i \in 1 .. Len(written) : written[i] = Sent(EligibleLines[i]))
    /\ [](pc = "done" => Len(written) = Len(EligibleLines))
    /\ [][(pc = "wait" /\ responses' = Append(responses, ERR)) => pc' = "for"]_vars
    /\ [][(pc = "for" /\ LastResponse = ERR /\ written' # written) =>
              written' = Append(written, Sent(EligibleLines[Len(written) + 1]))]_vars

\* a comment stands between two commands: the first was answered, the
\* comment was passed over and the second command has been sent
C28_Witness ==
    /\ pc = "wait"
    /\ Len(script) = 3 /\ Skipped(Strip(script[2])) /\ Strip(script[2]) # <<>>
    /\ Len(written) = 2 /\ written[2] = Sent(3)
    /\ responses = <<>>

\* the first command has just been answered with ERR and the run goes on
C28_WitnessAfterERR ==
    /\ pc = "for" /\ LastResponse = ERR
    /\ Len(written) = 1 /\ Len(EligibleLines) = 2

(***************************************************************************)
(* When the wait for a response ends, and when the run ends.               *)
(***************************************************************************)
Terminated == pc \in {"done", "raised"}

\* C29: send_and_wait_for_response returns only after a read of FIN or ERR;
\* a read that timed out and gave nothing never ends the wait; while the
\* runner waits it sends nothing; and with a device that answers every
\* command in the end, run_program terminates
C29_WaitsForAnswer ==
    /\ [][(pc = "wait" /\ pc' = "for") =>
              (responses' # responses /\ LastResponse' \in {FIN, ERR})]_vars
    /\ [][(pc = "wait" /\ responses' = Append(responses, <<>>)) =>
              (pc' = "wait" /\ written' = written /\ line_num' = line_num)]_vars
    /\ [][pc = "wait" => written' = written]_vars
    /\ <>Terminated

\* the runner waits for the answer to its second command after a read that
\* timed out
C29_Witness ==
    /\ pc = "wait"
    /\ Len(written) = 2
    /\ responses = <<<<>>>>

(***************************************************************************)
(* scan_depth_at_position of precise_barrel_scan.py: for each test radius  *)
(* the slices y = 28 .. 0 are scanned, one action for each slice.          *)
(***************************************************************************)
DepthTop == 28
SliceTolerance == 500
MaxCenterInSlice == 5
MinPerimeterInSlice == 15

\* line 64: test_radii=[2.0, 2.5, 3.0, 3.5]
DepthTestRadii == <<2 * Millimetre, (5 * Millimetre) \div 2, 3 * Millimetre,
                    (7 * Millimetre) \div 2>>

\* lines 85-91: the counts of the vertices of the slice y
SliceCounts(verts, at, radius, slice) ==
    With(Keep(verts, LAMBDA v : /\ v[2] - slice * Millimetre < SliceTolerance
                                /\ slice * Millimetre - v[2] < SliceTolerance),
         LAMBDA in_slice :
        SweepCounts(Map(in_slice, LAMBDA v : <<v[1], v[3]>>), at[1], at[2], radius))

\* line 94
IsVoid(verts, at, radius, slice) ==
    With(SliceCounts(verts, at, radius, slice), LAMBDA c :
        c.center < MaxCenterInSlice /\ c.perimeter > MinPerimeterInSlice)

\* the void ends at the slice that is no void
VoidEndAtSlice(slice) == slice

\* line 103: the void ends one slice before the slice that is no void
VoidEnd(slice) == slice + 1

(***************************************************************************)
(* The barrels scanned: a ring of 16 vertices of radius 3 mm around        *)
(* (x, z) = (6, 6) on each slice of a choice of the slices 28, 27, 25, 1   *)
(* and 0, the ring of slice 25 lying 0.4 mm behind it, and, in a plugged   *)
(* barrel, 5 vertices in the middle of slice 27.                           *)
(***************************************************************************)
RingSlices == {0, 1, 25, 27, 28}
RingSize == Len(Directions)
PlugSize == MaxCenterInSlice
PlugSlice == DepthTop - 1

RingDepth(slice) ==
    IF slice = 25 THEN slice * Millimetre + (4 * Millimetre) \div 10 ELSE slice * Millimetre

BarrelVertex(k, rings) ==
    IF k <= RingSize * Len(rings)
    THEN LET d == Directions[((k - 1) % RingSize) + 1]
         IN  <<VoidCentre + (VoidRadius * d[1]) \div 1000,
               RingDepth(rings[((k - 1) \div RingSize) + 1]),
               VoidCentre + (VoidRadius * d[2]) \div 1000>>
    ELSE <<VoidCentre, PlugSlice * Millimetre, VoidCentre>>

Barrel(slices, plugged) ==
    With(SortedSet(slices), LAMBDA rings :
        [k \in 1 .. RingSize * Len(rings) + (IF plugged THEN PlugSize ELSE 0) |->
            BarrelVertex(k, rings)])

Barrels == {Barrel(slices, plugged) : slices \in SUBSET RingSlices, plugged \in BOOLEAN}

\* main, lines 139-140: the scan is made at a port of the grid of the back
\* face
ScanPositions == {<<6, 6>>, <<8, 6>>}

\* lines 64-73
ScanDepthBegin ==
    /\ pc = "entry"
    /\ entry' = "scan_depth_at_position"
    /\ \E at \in ScanPositions : scan_at' = at
    /\ radii_left' = DepthTestRadii
    /\ pc' = "radius"
    /\ UNCHANGED <<exc, result, test_radius, face_verts, cells_left, workers, holes_found,
                   scan_y, in_void, void_start, void_regions, notSweep>>

\* lines 73-81: the next test radius, with nothing recorded yet
ScanNextRadius ==
    /\ pc = "radius" /\ radii_left # <<>>
    /\ test_radius' = Head(radii_left)
    /\ radii_left' = Tail(radii_left)
    /\ void_regions' = <<>>
    /\ in_void' = FALSE
    /\ void_start' = None
    /\ scan_y' = DepthTop
    /\ pc' = "slice"
    /\ UNCHANGED <<exc, entry, result, face_verts, cells_left, workers, holes_found, scan_at,
                   notSweep>>

\* lines 81-107: one slice
ScanSlice ==
    /\ pc = "slice" /\ scan_y >= 0
    /\ IF IsVoid(vertices, scan_at, test_radius, scan_y)
       THEN /\ void_start' = IF in_void THEN void_start ELSE scan_y
            /\ in_void' = TRUE
            /\ UNCHANGED void_regions
       ELSE /\ void_regions' =
                  IF in_void
                  THEN Append(void_regions,
                              <<void_start, VoidEnd(scan_y), void_start - VoidEnd(scan_y)>>)
                  ELSE void_regions
            /\ in_void' = FALSE
            /\ UNCHANGED void_start
    /\ scan_y' = scan_y - 1
    /\ UNCHANGED <<pc, exc, entry, result, test_radius, face_verts, cells_left, workers,
                   holes_found, scan_at, radii_left, notSweep>>

\* lines 109-111: a void still open after slice 0 is recorded down to 0
ScanCloseOpenVoid ==
    /\ pc = "slice" /\ scan_y < 0
    /\ void_regions' = IF in_void THEN Append(void_regions, <<void_start, 0, void_start>>)
                       ELSE void_regions
    /\ pc' = "radius"
    /\ UNCHANGED <<exc, entry, result, test_radius, face_verts, cells_left, workers,
                   holes_found, scan_at, radii_left, scan_y, in_void, void_start, notSweep>>

\* line 73: no test radius is left, the function returns None
ScanDepthReturn ==
    /\ pc = "radius" /\ radii_left = <<>>
    /\ result' = None
    /\ pc' = "done"
    /\ UNCHANGED <<exc, entry, test_radius, face_verts, cells_left, workers, holes_found,
                   scanVars, notSweep>>

InitScan ==
    /\ vertices \in Barrels
    /\ pc = "entry"
    /\ data = <<>> /\ variant = "none" /\ pos = 0 /\ num_triangles = 0 /\ idx = 0
    /\ facets = <<>> /\ exc = "none"
    /\ FmtIdle /\ TxtIdle /\ DetIdle

NextScan ==
    \/ ScanDepthBegin
    \/ ScanNextRadius
    \/ ScanSlice
    \/ ScanCloseOpenVoid
    \/ ScanDepthReturn

SpecScan == InitScan /\ [][NextScan]_vars

(***************************************************************************)
(* Claims on the depth scan.                                               *)
(***************************************************************************)
Slices == 0 .. DepthTop

\* the slices that are voids for the test radius of the scan
VoidSlices == {s \in Slices : IsVoid(vertices, scan_at, test_radius, s)}

\* the maximal runs of consecutive slices of a set, each as (first, last)
\* in the order of the scan, which goes down
MaximalRuns(void) ==
    {<<a, b>> \in Slices \X Slices :
        /\ a >= b
        /\ \A s \in b .. a : s \in void
        /\ a + 1 \notin void
        /\ b - 1 \notin void}

\* C30: for each test radius of scan_depth_at_position, while the slices
\* 28 .. 0 are scanned: the regions recorded are, one for one, the maximal
\* runs of void slices that have ended; a region (start, end, depth) has
\* the first slice of its run as start and the last as end, with start >=
\* end >= 0 and depth = start - end; the regions are disjoint and recorded
\* in strictly descending order; a run still open after slice 0 is closed
\* with end 0; and in_void holds exactly from the first slice of a run to
\* the first slice after it that is no void
C30_RegionsAreMaximalRuns ==
    (entry = "scan_depth_at_position" /\ test_radius # 0) =>
        With(VoidSlices, LAMBDA void :
            /\ \A i \in 1 .. Len(void_regions) :
                  /\ void_regions[i][1] >= void_regions[i][2] /\ void_regions[i][2] >= 0
                  /\ void_regions[i][3] = void_regions[i][1] - void_regions[i][2]
            /\ \A i, j \in 1 .. Len(void_regions) :
                  i < j => void_regions[i][2] > void_regions[j][1]
            /\ pc = "slice" =>
                  /\ {<<r[1], r[2]>> : r \in Elements(void_regions)} =
                         {run \in MaximalRuns(void) : run[2] >= scan_y + 2}
                  /\ in_void = (scan_y < DepthTop /\ scan_y + 1 \in void)
                  /\ in_void =>
                         \E run \in MaximalRuns(void) :
                             /\ run[1] = void_start
                             /\ run[2] <= scan_y + 1 /\ scan_y + 1 <= run[1]
            /\ pc \in {"radius", "done"} =>
                  /\ {<<r[1], r[2]>> : r \in Elements(void_regions)} = MaximalRuns(void)
                  /\ Len(void_regions) = Cardinality(MaximalRuns(void)))

\* a scan that has recorded a run of two slices, a run of one slice and a
\* run that was still open after slice 0
C30_Witness ==
    /\ entry = "scan_depth_at_position" /\ pc = "radius"
    /\ void_regions = <<<<28, 27, 1>>, <<25, 25, 0>>, <<1, 0, 1>>>>

====
